---- MODULE Spec2Model ----
(***************************************************************************)
(* Model of the farm-market client: the checkout flow of the crop detail   *)
(* page (CropDetail.handlePayment and its widget success handler), the     *)
(* Orders page query, the chat page (findOrCreateChat, fetchMessages, the  *)
(* realtime subscription and sendMessage), the auth context's role         *)
(* resolution, the phone login page, the email login page and the edge     *)
(* function that creates the gateway order.                                *)
(* The hosted store, the payment gateway and the identity provider are     *)
(* modelled by their tables and by the nondeterministic outcome            *)
(* (data or error) of every request.                                       *)
(***************************************************************************)
EXTENDS Integers, Sequences, FiniteSets, TLC

VARIABLES
    \* ---- hosted store and payment gateway, as the checkout flow sees them
    cropsTable,      \* the row of the crop on sale: [quantity_kg, available]
    ordersTable,     \* rows of table orders, in insertion (created_at) order
    gatewayOrders,   \* orders created at the payment gateway: a set of [id, amount]
    payments,        \* ids of the payments the checkout widget has captured
    \* ---- CropDetail page state, one per open page
    pageUser,        \* useAuth().user of the page: a uid or NoUser
    crop,            \* useState crop: the row as loaded by fetchCrop, or NoCrop
    quantity,        \* useState quantity
    address,         \* useState address
    paying,          \* useState paying
    location,        \* the route the page is at
    toast,           \* the last notification shown on the page
    checkouts,       \* runs of handlePayment that passed validation
    pageOrders,      \* Orders page: useState orders
    op,              \* the call that took the last step: handlePayment or fetchOrders
                     \* of a page, or any other step
    \* ---- Chat page and the tables chats and messages
    chatsTable,      \* rows of table chats, in insertion order (id = position)
    messagesTable,   \* rows of table messages, in insertion (created_at) order
    chatUser,        \* useAuth().user of the chat page: a uid or NoUser
    calls,           \* runs of findOrCreateChat: [pc, existing]
    chats,           \* useState chats: the conversation list
    activeChat,      \* useState activeChat: a chat id, or NoChat
    messages,        \* useState messages: the list shown
    fetches,         \* fetchMessages requests: [chat, pc, data]
    channel,         \* the realtime channel of the chat effect: [chat, joined, queue]
    chatToast,       \* the last notification shown on the chat page
    newMessage,      \* useState newMessage: the text in the input
    sends,           \* runs of sendMessage that passed its guard: [pc, chat_id, sender_id, content]
    \* ---- AuthProvider and the table profiles
    user,            \* useState user: a uid or NoUser
    loading,         \* useState loading
    userRole,        \* useState userRole: a role or NoRole
    needsRoleSelection,  \* useState needsRoleSelection
    profiles,        \* table profiles: the stored role of each uid, or NoProfile
    handlers,        \* runs of the onAuthStateChanged callback: [firebaseUser, pc, clean]
    signingOut,      \* a run of signOut awaits auth.signOut()
    \* ---- PhoneAuth page (phone login)
    phone,           \* useState phone: the digits typed
    otp,             \* useState otp: the digits typed
    step,            \* useState step: "phone", "otp" or "role"
    isLoading,       \* useState isLoading
    confirmationResult,  \* useState confirmationResult, or NoConfirmation
    isDevMode,       \* useState isDevMode
    phoneToast,      \* the last notification shown on the page
    phoneNav,        \* the route the page is at ("/auth" until it navigates)
    pending,         \* the request the page awaits: [kind, ...], or NoPending
    phoneOp,         \* the call of the page that took the last step, or NoPhoneOp
    recaptchaVerifier,   \* whether recaptchaVerifierRef holds a verifier
    \* ---- edge function create-razorpay-order
    env,             \* Deno.env: the two gateway credentials, each a value or Undefined
    requests,        \* requests served: [method, body, pc, read, called, response]
    gatewayCalls,    \* order requests the function has sent to the gateway
    \* ---- Auth page (email and password)
    formRole,        \* useState role
    authIsLoading,   \* useState isLoading
    authToast,       \* the last notification shown on the page
    authNav,         \* the route the page is at ("/auth" until it navigates)
    authCalls,       \* runs of handleAuth: [mode, email, password, requested, pc]
    \* ---- PhoneAuth page, role-first variant (its other state is named as above)
    selectedRole     \* useState role: the role chosen on the form

checkoutVars == <<cropsTable, ordersTable, gatewayOrders, payments, pageUser, crop,
                  quantity, address, paying, location, toast, checkouts, pageOrders, op>>

chatVars == <<chatsTable, messagesTable, chatUser, calls, chats, activeChat, messages,
              fetches, channel, chatToast, newMessage, sends>>

authVars == <<user, loading, userRole, needsRoleSelection, profiles, handlers, signingOut>>

phoneVars == <<phone, otp, step, isLoading, confirmationResult, isDevMode, phoneToast,
               phoneNav, pending, phoneOp, recaptchaVerifier>>

edgeVars == <<env, requests, gatewayCalls>>

emailVars == <<formRole, authIsLoading, authToast, authNav, authCalls>>

roleFirstVars == <<selectedRole>>

restVars == <<edgeVars, emailVars, roleFirstVars>>

vars == <<checkoutVars, chatVars, authVars, phoneVars, restVars>>

(* The auth context's steps leave phoneVars to the page that renders on them. *)
notCheckout == <<chatVars, authVars, phoneVars, restVars>>
notChat == <<checkoutVars, authVars, phoneVars, restVars>>
notAuth == <<checkoutVars, chatVars, restVars>>
notEdge == <<checkoutVars, chatVars, authVars, phoneVars, emailVars, roleFirstVars>>
notEmail == <<checkoutVars, chatVars, authVars, phoneVars, edgeVars, roleFirstVars>>
notRoleFirst == <<checkoutVars, chatVars, edgeVars, emailVars>>

----------------------------------------------------------------------------
(* Bounds of the model *)
InitStock == 1
MaxCheckouts == 2

(* Values *)
NoUser == "null"
Undefined == "undefined"
SqlNull == "NULL"
NoCrop == [loaded |-> FALSE, quantity_kg |-> 0]
Pages == {"p1", "p2"}
Uids == {"u1"}
CropId == "c1"
FarmerId == "f1"
PricePerKg == 3
TypedAddresses == {" ", "a"}

Min(a, b) == IF a < b THEN a ELSE b

(* String.prototype.trim on the strings of the model *)
Trim(s) == CASE s = " " -> ""
             [] s = " hi " -> "hi"
             [] OTHER -> s

(* The Firebase User object of a signed-in user: it has uid, phoneNumber and
   email, and no property named id. *)
ADMIN_PHONE == "+919381179867"
AdminUid == "ua"
PhoneOf(uid) == IF uid = AdminUid THEN ADMIN_PHONE ELSE "+910000000001"
FirebaseUser(uid) == [uid |-> uid, phoneNumber |-> PhoneOf(uid), email |-> "null"]

(* JavaScript property access obj.f: undefined when the object has no such
   property. *)
Prop(obj, f) == IF f \in DOMAIN obj THEN obj[f] ELSE Undefined

(* A value sent in a JSON request body and stored in a column: a key whose
   value is undefined is dropped by JSON.stringify, so the column is NULL. *)
Column(v) == IF v = Undefined THEN SqlNull ELSE v

(* SQL equality of a column with a filter value: never true of NULL. *)
SqlEq(col, val) == col # SqlNull /\ col = val

----------------------------------------------------------------------------
(* CropDetail: the checkout flow *)

(* crop?.quantity_kg || 0 *)
StockOf(c) == IF c.loaded THEN c.quantity_kg ELSE 0

(* const totalPrice = crop ? crop.price_per_kg * quantity : 0 *)
totalPrice(c, q) == IF c.loaded THEN PricePerKg * q ELSE 0

(* Faulty variant: the address check is left out. *)
ValidateNoAddress(u, a, q, c) ==
    IF u = NoUser THEN "loginRequired"
    ELSE IF q > StockOf(c) THEN "insufficientStock"
    ELSE "ok"

(* The three early returns of handlePayment, in the order of the code. *)
Validate(u, a, q, c) ==
    IF u = NoUser THEN "loginRequired"
    ELSE IF Trim(a) = "" THEN "addressRequired"
    ELSE IF q > StockOf(c) THEN "insufficientStock"
    ELSE "ok"

(* Faulty variant: the amount is passed on in rupees. *)
EdgeAmountRupees(amount) == amount
(* The order-creation function asks the gateway for amount * 100 (paise). *)
EdgeAmount(amount) == amount * 100

(* The order the function asks the gateway to create. *)
GatewayOrderRequest(amount) == [amount |-> EdgeAmount(amount), currency |-> "INR"]

(* The gateway's order for a request, under the id the gateway gives it. *)
GatewayOrder(id, request) ==
    [id |-> id, amount |-> request.amount, currency |-> request.currency]

NoOrderData == [id |-> 0, amount |-> 0, currency |-> ""]

(* The options the checkout widget is opened with. *)
WidgetOptions(c) ==
    [amount |-> c.orderData.amount, currency |-> "INR", order_id |-> c.orderData.id]
NoResponse == [razorpay_order_id |-> 0, razorpay_payment_id |-> 0]

(* The closure of one handlePayment call: the render's user, crop, quantity,
   address and totalPrice, captured when Pay was pressed. *)
NewCheckout(p) ==
    [page |-> p, pc |-> "invoke", user |-> pageUser[p], crop |-> crop[p],
     quantity |-> quantity[p], address |-> address[p],
     totalPrice |-> totalPrice(crop[p], quantity[p]),
     orderData |-> NoOrderData, response |-> NoResponse,
     err |-> "none", notified |-> FALSE]

(* After supabase.functions.invoke returned: `if (orderError) throw orderError`,
   then `new window.Razorpay(options)` which throws when the checkout script
   has not loaded; both land in the catch block. *)
AfterInvoke(orderError, scriptLoaded) ==
    IF orderError THEN "caught"
    ELSE IF ~scriptLoaded THEN "caught"
    ELSE "widget"

(* Faulty variant: the handler reads the form as it is when the payment returns
   instead of the values captured when Pay was pressed. *)
OrderRowLiveForm(c, response) ==
    [buyer_id |-> Column(Prop(FirebaseUser(c.user), "id")),
     farmer_id |-> FarmerId,
     crop_id |-> CropId,
     quantity_kg |-> quantity[c.page],
     total_price |-> totalPrice(crop[c.page], quantity[c.page]),
     status |-> "paid",
     delivery_address |-> address[c.page],
     razorpay_order_id |-> response.razorpay_order_id,
     razorpay_payment_id |-> response.razorpay_payment_id]

(* The row the success handler inserts into orders. *)
OrderRow(c, response) ==
    [buyer_id |-> Column(Prop(FirebaseUser(c.user), "id")),
     farmer_id |-> FarmerId,
     crop_id |-> CropId,
     quantity_kg |-> c.quantity,
     total_price |-> c.totalPrice,
     status |-> "paid",
     delivery_address |-> c.address,
     razorpay_order_id |-> response.razorpay_order_id,
     razorpay_payment_id |-> response.razorpay_payment_id]

(* Faulty variant: the insert's error is not looked at. *)
AfterInsertUnchecked(dbError) == "update"

(* `if (dbError) throw dbError` inside the widget's handler: the handler is
   called by the widget, outside handlePayment's try block, so the throw is
   an unhandled rejection; otherwise the stock update is issued. *)
AfterInsert(dbError) == IF dbError THEN "rejected" ELSE "update"

(* Faulty variant: the handler throws on the stock update's error. *)
AfterUpdateThrows(updateError) == IF updateError THEN "rejected" ELSE "done"

(* The stock update's result is awaited and its error is not looked at. *)
AfterUpdate(updateError) == "done"

(* Faulty variant: a crop with nothing left stays available. *)
StockUpdateNonNegative(c) ==
    [quantity_kg |-> StockOf(c.crop) - c.quantity,
     available |-> StockOf(c.crop) - c.quantity >= 0]
(* The values the handler writes to the crop's row. *)
StockUpdate(c) ==
    [quantity_kg |-> StockOf(c.crop) - c.quantity,
     available |-> StockOf(c.crop) - c.quantity > 0]

Set(f, p, v) == [f EXCEPT ![p] = v]
SetCheckout(i, c) == [checkouts EXCEPT ![i] = c]
Op(n, p) == [name |-> n, page |-> p]
OtherOp == Op("other", "none")

Mounted(p) == location[p] = "crop"

(* fetchCrop: the page loads the crop's row; on an error crop stays null. *)
FetchCrop(p) ==
    /\ Mounted(p)
    /\ ~crop[p].loaded
    /\ \E error \in BOOLEAN :
         IF error
         THEN /\ toast' = Set(toast, p, "error")
              /\ crop' = crop
         ELSE /\ crop' = Set(crop, p, [loaded |-> TRUE, quantity_kg |-> cropsTable.quantity_kg])
              /\ toast' = toast
    /\ op' = OtherOp
    /\ UNCHANGED <<cropsTable, ordersTable, gatewayOrders, payments, pageUser, quantity,
                   address, paying, location, checkouts, pageOrders>>
    /\ UNCHANGED notCheckout

(* The quantity input: setQuantity(Math.min(Number(value), crop.quantity_kg)) *)
TypedQuantities == (0 - 1) .. (InitStock + 1)

SetQuantity(p) ==
    /\ Mounted(p)
    /\ crop[p].loaded
    /\ \E v \in TypedQuantities : quantity' = Set(quantity, p, Min(v, crop[p].quantity_kg))
    /\ quantity' # quantity
    /\ op' = OtherOp
    /\ UNCHANGED <<cropsTable, ordersTable, gatewayOrders, payments, pageUser, crop,
                   address, paying, location, toast, checkouts, pageOrders>>
    /\ UNCHANGED notCheckout

SetAddress(p) ==
    /\ Mounted(p)
    /\ crop[p].loaded
    /\ \E a \in TypedAddresses : address' = Set(address, p, a)
    /\ address' # address
    /\ op' = OtherOp
    /\ UNCHANGED <<cropsTable, ordersTable, gatewayOrders, payments, pageUser, crop,
                   quantity, paying, location, toast, checkouts, pageOrders>>
    /\ UNCHANGED notCheckout

(* handlePayment up to its first await. The Pay button is rendered once the
   crop is loaded and is disabled while paying. *)
HandlePayment(p) ==
    /\ Mounted(p)
    /\ crop[p].loaded
    /\ ~paying[p]
    /\ LET v == Validate(pageUser[p], address[p], quantity[p], crop[p]) IN
       IF v # "ok"
       THEN /\ toast' = Set(toast, p, v)
            /\ location' = IF v = "loginRequired" THEN Set(location, p, "/auth") ELSE location
            /\ UNCHANGED <<paying, checkouts>>
       ELSE /\ Len(checkouts) < MaxCheckouts
            /\ paying' = Set(paying, p, TRUE)
            /\ checkouts' = Append(checkouts, NewCheckout(p))
            /\ UNCHANGED <<toast, location>>
    /\ op' = Op("handlePayment", p)
    /\ UNCHANGED <<cropsTable, ordersTable, gatewayOrders, payments, pageUser, crop,
                   quantity, address, pageOrders>>
    /\ UNCHANGED notCheckout

(* The order-creation request returns. On success the gateway holds a new
   order of EdgeAmount(amount) and the widget is opened with it; on any error
   the catch block notifies. The finally block clears paying in both cases. *)
InvokeReturn(i) ==
    /\ i \in DOMAIN checkouts
    /\ checkouts[i].pc = "invoke"
    /\ LET c == checkouts[i] IN
       \E orderError \in BOOLEAN, scriptLoaded \in BOOLEAN :
         LET next == AfterInvoke(orderError, scriptLoaded)
             order == GatewayOrder(i, GatewayOrderRequest(c.totalPrice))
         IN /\ gatewayOrders' = IF orderError THEN gatewayOrders ELSE gatewayOrders \cup {order}
            /\ checkouts' = SetCheckout(i,
                 [c EXCEPT !.pc = next,
                           !.orderData = IF orderError THEN NoOrderData ELSE order,
                           !.err = IF orderError THEN "invoke"
                                   ELSE IF ~scriptLoaded THEN "widget" ELSE "none",
                           !.notified = (next = "caught")])
            /\ toast' = IF next = "caught" THEN Set(toast, c.page, "error") ELSE toast
            /\ paying' = Set(paying, c.page, FALSE)
            /\ op' = OtherOp
    /\ UNCHANGED <<cropsTable, ordersTable, payments, pageUser, crop, quantity, address,
                   location, pageOrders>>
    /\ UNCHANGED notCheckout

(* The buyer pays in the widget: the widget calls options.handler with the
   gateway's order id and a new payment id, and the handler issues the insert.
   The gateway's ids are unique; the model names the order and the payment of
   checkout i by i. *)
WidgetSuccess(i) ==
    /\ i \in DOMAIN checkouts
    /\ checkouts[i].pc = "widget"
    /\ LET c == checkouts[i] IN
         /\ payments' = payments \cup {i}
         /\ checkouts' = SetCheckout(i,
              [c EXCEPT !.pc = "insert",
                        !.response = [razorpay_order_id |-> c.orderData.id,
                                      razorpay_payment_id |-> i]])
         /\ op' = OtherOp
    /\ UNCHANGED <<cropsTable, ordersTable, gatewayOrders, pageUser, crop, quantity,
                   address, paying, location, toast, pageOrders>>
    /\ UNCHANGED notCheckout

(* The buyer closes the widget, or the payment fails: the handler never runs. *)
WidgetDismiss(i) ==
    /\ i \in DOMAIN checkouts
    /\ checkouts[i].pc = "widget"
    /\ checkouts' = SetCheckout(i, [checkouts[i] EXCEPT !.pc = "dismissed"])
    /\ op' = OtherOp
    /\ UNCHANGED <<cropsTable, ordersTable, gatewayOrders, payments, pageUser, crop,
                   quantity, address, paying, location, toast, pageOrders>>
    /\ UNCHANGED notCheckout

(* The insert into orders returns. *)
InsertReturn(i) ==
    /\ i \in DOMAIN checkouts
    /\ checkouts[i].pc = "insert"
    /\ LET c == checkouts[i] IN
       \E dbError \in BOOLEAN :
         /\ ordersTable' = IF dbError THEN ordersTable
                           ELSE Append(ordersTable, OrderRow(c, c.response))
         /\ checkouts' = SetCheckout(i,
              [c EXCEPT !.pc = AfterInsert(dbError),
                        !.err = IF dbError THEN "insert" ELSE "none"])
         /\ op' = OtherOp
    /\ UNCHANGED <<cropsTable, gatewayOrders, payments, pageUser, crop, quantity,
                   address, paying, location, toast, pageOrders>>
    /\ UNCHANGED notCheckout

(* The stock update returns; then the success toast and navigate('/orders'). *)
UpdateReturn(i) ==
    /\ i \in DOMAIN checkouts
    /\ checkouts[i].pc = "update"
    /\ LET c == checkouts[i] IN
       \E updateError \in BOOLEAN :
         LET next == AfterUpdate(updateError) IN
         /\ cropsTable' = IF updateError THEN cropsTable ELSE StockUpdate(c)
         /\ checkouts' = SetCheckout(i,
              [c EXCEPT !.pc = next,
                        !.err = IF updateError THEN "update" ELSE "none"])
         /\ toast' = IF next = "done" THEN Set(toast, c.page, "paymentSuccess") ELSE toast
         /\ location' = IF next = "done" THEN Set(location, c.page, "/orders") ELSE location
         /\ op' = OtherOp
    /\ UNCHANGED <<ordersTable, gatewayOrders, payments, pageUser, crop, quantity,
                   address, paying, pageOrders>>
    /\ UNCHANGED notCheckout

----------------------------------------------------------------------------
(* Orders page *)

RECURSIVE Reverse(_)
Reverse(s) == IF s = <<>> THEN <<>> ELSE Append(Reverse(Tail(s)), Head(s))

RECURSIVE SelectRows(_, _)
SelectRows(rows, uid) ==
    IF rows = <<>> THEN <<>>
    ELSE LET r == Head(rows)
             rest == SelectRows(Tail(rows), uid)
         IN IF SqlEq(r.buyer_id, uid) \/ SqlEq(r.farmer_id, uid) THEN <<r>> \o rest ELSE rest

(* .or(`buyer_id.eq.${user?.id},farmer_id.eq.${user?.id}`)
   .order('created_at', { ascending: false }) *)
OrdersQuery(rows, u) == Reverse(SelectRows(rows, Prop(FirebaseUser(u), "id")))

(* fetchOrders, run when the Orders page is shown to a signed-in user. *)
FetchOrders(p) ==
    /\ location[p] = "/orders"
    /\ pageUser[p] # NoUser
    /\ \E error \in BOOLEAN :
         IF error
         THEN /\ toast' = Set(toast, p, "error")
              /\ pageOrders' = pageOrders
         ELSE /\ pageOrders' = Set(pageOrders, p, OrdersQuery(ordersTable, pageUser[p]))
              /\ toast' = toast
    /\ op' = Op("fetchOrders", p)
    /\ UNCHANGED <<cropsTable, ordersTable, gatewayOrders, payments, pageUser, crop,
                   quantity, address, paying, location, checkouts>>
    /\ UNCHANGED notCheckout

----------------------------------------------------------------------------
(* Each specification runs one page; the state of the other pages stays as
   constructed. *)
CheckoutIdle ==
    /\ cropsTable = [quantity_kg |-> 0, available |-> FALSE]
    /\ ordersTable = <<>>
    /\ gatewayOrders = {}
    /\ payments = {}
    /\ pageUser = [p \in Pages |-> NoUser]
    /\ crop = [p \in Pages |-> NoCrop]
    /\ quantity = [p \in Pages |-> 1]
    /\ address = [p \in Pages |-> ""]
    /\ paying = [p \in Pages |-> FALSE]
    /\ location = [p \in Pages |-> "closed"]
    /\ toast = [p \in Pages |-> "none"]
    /\ checkouts = <<>>
    /\ pageOrders = [p \in Pages |-> <<>>]
    /\ op = OtherOp

NoChat == 0
NoChannel == [chat |-> NoChat, joined |-> FALSE, since |-> 0, queue |-> <<>>]

ChatIdle ==
    /\ chatsTable = <<>>
    /\ messagesTable = <<>>
    /\ chatUser = NoUser
    /\ calls = <<>>
    /\ chats = <<>>
    /\ activeChat = NoChat
    /\ messages = <<>>
    /\ fetches = <<>>
    /\ channel = NoChannel
    /\ chatToast = "none"
    /\ newMessage = ""
    /\ sends = <<>>

NoRole == "null"
NoProfile == "none"
AuthUsers == {"u1", AdminUid}

AuthIdle ==
    /\ user = NoUser
    /\ loading = TRUE
    /\ userRole = NoRole
    /\ needsRoleSelection = FALSE
    /\ profiles = [u \in AuthUsers |-> NoProfile]
    /\ handlers = <<>>
    /\ signingOut = FALSE

NoConfirmation == [phone |-> <<>>]
NoPending == [kind |-> "none"]
PhoneOp(n, ok) == [name |-> n, ok |-> ok]
NoPhoneOp == PhoneOp("other", TRUE)

PhoneIdle ==
    /\ phone = <<>>
    /\ otp = <<>>
    /\ step = "phone"
    /\ isLoading = FALSE
    /\ confirmationResult = NoConfirmation
    /\ isDevMode = FALSE
    /\ phoneToast = "none"
    /\ phoneNav = "/auth"
    /\ pending = NoPending
    /\ phoneOp = NoPhoneOp
    /\ recaptchaVerifier = FALSE

(* The edge function before any request; no credential configured. *)
EdgeIdle ==
    /\ env = [Razorpay_apikey |-> Undefined, Razorpay_key_secret |-> Undefined]
    /\ requests = <<>>
    /\ gatewayCalls = <<>>

EmailIdle ==
    /\ formRole = "buyer"
    /\ authIsLoading = FALSE
    /\ authToast = "none"
    /\ authNav = "/auth"
    /\ authCalls = <<>>

RoleFirstIdle == selectedRole = "buyer"

RestIdle == EdgeIdle /\ EmailIdle /\ RoleFirstIdle

----------------------------------------------------------------------------
CheckoutInit ==
    /\ \E s \in 0..InitStock : cropsTable = [quantity_kg |-> s, available |-> s > 0]
    /\ ordersTable = <<>>
    /\ gatewayOrders = {}
    /\ payments = {}
    /\ \E u \in Uids \cup {NoUser} : pageUser = [p \in Pages |-> IF p = "p1" THEN u ELSE NoUser]
    /\ crop = [p \in Pages |-> NoCrop]
    /\ quantity = [p \in Pages |-> 1]
    /\ address = [p \in Pages |-> ""]
    /\ paying = [p \in Pages |-> FALSE]
    /\ location = [p \in Pages |-> IF p = "p1" THEN "crop" ELSE "closed"]
    /\ toast = [p \in Pages |-> "none"]
    /\ checkouts = <<>>
    /\ pageOrders = [p \in Pages |-> <<>>]
    /\ op = OtherOp
    /\ ChatIdle
    /\ AuthIdle
    /\ PhoneIdle
    /\ RestIdle

CheckoutNext ==
    \/ \E p \in Pages : FetchCrop(p)
    \/ \E p \in Pages : SetQuantity(p)
    \/ \E p \in Pages : SetAddress(p)
    \/ \E p \in Pages : HandlePayment(p)
    \/ \E i \in 1..MaxCheckouts : InvokeReturn(i)
    \/ \E i \in 1..MaxCheckouts : WidgetSuccess(i)
    \/ \E i \in 1..MaxCheckouts : WidgetDismiss(i)
    \/ \E i \in 1..MaxCheckouts : InsertReturn(i)
    \/ \E i \in 1..MaxCheckouts : UpdateReturn(i)
    \/ \E p \in Pages : FetchOrders(p)

SpecCheckout == CheckoutInit /\ [][CheckoutNext]_vars

(* Two buyers have the same crop's page open at the same time. *)
ConcurrentInit ==
    /\ cropsTable = [quantity_kg |-> InitStock, available |-> InitStock > 0]
    /\ ordersTable = <<>>
    /\ gatewayOrders = {}
    /\ payments = {}
    /\ pageUser = [p \in Pages |-> IF p = "p1" THEN "u1" ELSE "u2"]
    /\ crop = [p \in Pages |-> NoCrop]
    /\ quantity = [p \in Pages |-> 1]
    /\ address = [p \in Pages |-> ""]
    /\ paying = [p \in Pages |-> FALSE]
    /\ location = [p \in Pages |-> "crop"]
    /\ toast = [p \in Pages |-> "none"]
    /\ checkouts = <<>>
    /\ pageOrders = [p \in Pages |-> <<>>]
    /\ op = OtherOp
    /\ ChatIdle
    /\ AuthIdle
    /\ PhoneIdle
    /\ RestIdle

(* The steps of the two crop pages (the Orders page stays closed). *)
ConcurrentNext ==
    \/ \E p \in Pages : FetchCrop(p)
    \/ \E p \in Pages : SetQuantity(p)
    \/ \E p \in Pages : SetAddress(p)
    \/ \E p \in Pages : HandlePayment(p)
    \/ \E i \in 1..MaxCheckouts : InvokeReturn(i)
    \/ \E i \in 1..MaxCheckouts : WidgetSuccess(i)
    \/ \E i \in 1..MaxCheckouts : WidgetDismiss(i)
    \/ \E i \in 1..MaxCheckouts : InsertReturn(i)
    \/ \E i \in 1..MaxCheckouts : UpdateReturn(i)

SpecConcurrent == ConcurrentInit /\ [][ConcurrentNext]_vars

RECURSIVE SumQuantity(_)
SumQuantity(rows) ==
    IF rows = <<>> THEN 0 ELSE Head(rows).quantity_kg + SumQuantity(Tail(rows))

Settled(c) ==
    \/ c.pc = "done" /\ c.err = "none"
    \/ c.pc \in {"caught", "dismissed", "rejected"}

OnePerBuyer ==
    \A i, j \in DOMAIN checkouts : checkouts[i].page = checkouts[j].page => i = j

(* C17: with one checkout per buyer, once every checkout has either succeeded
   in all its requests or ended without an order, the crop's quantity_kg is
   the initial stock minus the quantities of the recorded orders, and it is
   not negative. *)
C17_StockConserved ==
    (OnePerBuyer /\ \A i \in DOMAIN checkouts : Settled(checkouts[i])) =>
      /\ cropsTable.quantity_kg = InitStock - SumQuantity(ordersTable)
      /\ cropsTable.quantity_kg >= 0

----------------------------------------------------------------------------
(* Properties of the checkout flow *)

Checkout(i) == checkouts[i]
GatewayIds == {o.id : o \in gatewayOrders}
RowOf(c) == {k \in DOMAIN ordersTable :
               ordersTable[k].razorpay_payment_id = c.response.razorpay_payment_id}
IsPrefix(s, t) == Len(s) <= Len(t) /\ \A k \in DOMAIN s : s[k] = t[k]

PcOrder ==
    {<<"invoke", "widget">>, <<"invoke", "caught">>, <<"widget", "insert">>,
     <<"widget", "dismissed">>, <<"insert", "update">>, <<"insert", "rejected">>,
     <<"update", "done">>}

C1_State ==
    \A i \in DOMAIN checkouts :
      LET c == Checkout(i) IN
        /\ c.pc \in {"widget", "dismissed", "insert", "update", "done", "rejected"}
             => c.orderData \in gatewayOrders
        /\ c.pc \in {"insert", "update", "done", "rejected"}
             => /\ c.response.razorpay_payment_id \in payments
                /\ c.response.razorpay_order_id = c.orderData.id
        /\ c.pc \in {"invoke", "caught", "widget", "dismissed", "insert", "rejected"}
             => RowOf(c) = {}
        /\ c.pc \in {"update", "done"} => RowOf(c) # {}

C1_Step ==
    /\ \A i \in DOMAIN checkouts :
         Checkout(i).pc # checkouts'[i].pc => <<Checkout(i).pc, checkouts'[i].pc>> \in PcOrder
    /\ ordersTable' # ordersTable =>
         \E i \in DOMAIN checkouts :
           /\ Checkout(i).pc = "insert" /\ checkouts'[i].pc = "update"
           /\ Checkout(i).orderData.id \in GatewayIds
           /\ Checkout(i).response.razorpay_payment_id \in payments
           /\ Len(ordersTable') = Len(ordersTable) + 1
           /\ IsPrefix(ordersTable, ordersTable')
    /\ cropsTable' # cropsTable =>
         \E i \in DOMAIN checkouts :
           /\ Checkout(i).pc = "update" /\ checkouts'[i].pc = "done"
           /\ RowOf(Checkout(i)) # {}

(* C1: the checkout steps happen only in the order create remote order, open
   widget, insert order record, update stock: a widget is open only for a
   gateway order that was created, an order record is inserted only by a
   success handler holding a payment of the widget, the stock changes only
   in a handler whose insert succeeded, and no order record or stock change
   exists without a created gateway order and a payment result. *)
C1_CheckoutOrder == [](C1_State) /\ [][C1_Step]_vars

C1_Witness ==
    \E i \in DOMAIN checkouts :
      /\ Checkout(i).pc = "done" /\ Checkout(i).err = "none"
      /\ RowOf(Checkout(i)) # {}
      /\ Checkout(i).quantity > 0
      /\ cropsTable.quantity_kg = Checkout(i).crop.quantity_kg - Checkout(i).quantity

(* C2: every error returned by a remote call of the checkout flow (order
   creation, order-record insert, stock update) is caught and shown to the
   user as an error notification. *)
C2_ErrorsNotified ==
    \A i \in DOMAIN checkouts : Checkout(i).err # "none" => Checkout(i).notified

C3_State ==
    \A i \in DOMAIN checkouts :
      (Checkout(i).pc = "rejected" /\ Checkout(i).err = "insert") => RowOf(Checkout(i)) = {}

C3_Step ==
    /\ IsPrefix(ordersTable, ordersTable')
    /\ \A i \in DOMAIN checkouts :
         LET c == Checkout(i) IN
           /\ c.pc \in {"done", "rejected"} => checkouts'[i] = c
           /\ (c.pc = "update" /\ checkouts'[i].err = "update") =>
                /\ cropsTable' = cropsTable
                /\ \A k \in RowOf(c) : ordersTable'[k].status = "paid"
                /\ RowOf(c) # {}
                /\ checkouts'[i].pc = "done"
                /\ toast'[c.page] = "paymentSuccess"
                /\ location'[c.page] = "/orders"
    /\ cropsTable' # cropsTable =>
         \E j \in DOMAIN checkouts :
           /\ Checkout(j).pc = "update" /\ checkouts'[j].err = "none"
           /\ cropsTable' = StockUpdate(Checkout(j))

(* C3: no recovery from partial failure. When the stock update fails after
   the order record was written, the record stays (status paid), the stock
   keeps its value, the flow shows the success notification and navigates to
   /orders, and the finished checkout takes no further step; the stock only
   ever changes by a checkout's own successful update. When the insert
   fails, no order record exists for the payment, then or later. *)
C3_NoRecovery == [](C3_State) /\ [][C3_Step]_vars

C3_Witness ==
    \E i \in DOMAIN checkouts :
      /\ Checkout(i).pc = "done" /\ Checkout(i).err = "update"
      /\ Checkout(i).quantity > 0
      /\ cropsTable.quantity_kg = Checkout(i).crop.quantity_kg
      /\ \E k \in RowOf(Checkout(i)) : ordersTable[k].status = "paid"
      /\ location[Checkout(i).page] = "/orders"
      /\ toast[Checkout(i).page] = "paymentSuccess"

(* C4: an order written by the checkout flow for the signed-in user U has
   U's uid as buyer_id, and the Orders page of U, once fetched, shows it. *)
C4_BuyerSeesOrder ==
    \A i \in DOMAIN checkouts : \A k \in RowOf(Checkout(i)) :
      /\ ordersTable[k].buyer_id = Checkout(i).user
      /\ \A p \in Pages :
           (op = Op("fetchOrders", p) /\ pageUser[p] = Checkout(i).user)
             => \E n \in DOMAIN pageOrders[p] : pageOrders[p][n] = ordersTable[k]

C5_State ==
    \A k \in DOMAIN ordersTable :
      LET r == ordersTable[k] IN
      \E i \in DOMAIN checkouts :
        LET c == Checkout(i) IN
          /\ c.pc \in {"update", "done"}
          /\ r.razorpay_payment_id = c.response.razorpay_payment_id
          /\ r.razorpay_order_id = c.response.razorpay_order_id
          /\ r.razorpay_order_id = c.orderData.id
          /\ r.status = "paid"
          /\ r.quantity_kg = c.quantity
          /\ r.total_price = PricePerKg * c.quantity
          /\ r.delivery_address = c.address
          /\ r.crop_id = CropId
          /\ r.farmer_id = FarmerId

C5_Step ==
    \A p \in Pages :
      (op' = Op("handlePayment", p) /\ Len(checkouts') = Len(checkouts) + 1) =>
        LET c == checkouts'[Len(checkouts')] IN
          /\ c.page = p
          /\ c.quantity = quantity[p]
          /\ c.address = address[p]

(* C5: every order record written by the success handler has status paid,
   the quantity and the address that were on the form when Pay was pressed,
   total_price = price_per_kg * that quantity, the crop's id and farmer, and
   the order id and payment id the widget returned. *)
C5_OrderRecord == [](C5_State) /\ [][C5_Step]_vars

C5_Witness ==
    \E k \in DOMAIN ordersTable :
      /\ ordersTable[k].quantity_kg > 0
      /\ ordersTable[k].quantity_kg # quantity["p1"]
      /\ ordersTable[k].delivery_address # address["p1"]

Invalid(p) ==
    \/ pageUser[p] = NoUser
    \/ Trim(address[p]) = ""
    \/ quantity[p] > crop[p].quantity_kg

C6_Step ==
    \A p \in Pages :
      (op' = Op("handlePayment", p) /\ Invalid(p)) =>
        /\ UNCHANGED <<cropsTable, ordersTable, gatewayOrders, payments, checkouts>>
        /\ toast'[p] \in {"loginRequired", "addressRequired", "insufficientStock"}
        /\ ~paying[p] /\ ~paying'[p]
        /\ pageUser[p] = NoUser => location'[p] = "/auth"

(* C6: handlePayment makes no remote call, opens no widget and writes nothing
   when no user is signed in, when the address is blank after trimming, or
   when the quantity exceeds the loaded stock; the user is notified, paying
   stays false, and without a user the page navigates to /auth. *)
C6_ValidationStops == [][C6_Step]_vars

C6_Witness ==
    /\ op = Op("handlePayment", "p1")
    /\ toast["p1"] = "insufficientStock"
    /\ quantity["p1"] > crop["p1"].quantity_kg

Succeeds(i) ==
    /\ checkouts[i].pc = "update"
    /\ checkouts'[i].pc = "done"
    /\ checkouts'[i].err = "none"

C16_Step ==
    \A i \in DOMAIN checkouts :
      LET c == checkouts[i]
          s == c.crop.quantity_kg
          q == c.quantity
      IN (Succeeds(i) /\ c.crop.loaded /\ cropsTable.quantity_kg = s) =>
           /\ cropsTable'.quantity_kg = s - q
           /\ cropsTable'.available = (s - q > 0)

(* C16: when a checkout of quantity q completes with all three requests
   successful, and the crop's row still holds the stock s the page loaded,
   the row's quantity_kg becomes s - q and its available flag is true exactly
   when s - q > 0. *)
C16_StockAfterCheckout == [][C16_Step]_vars

C16_Witness ==
    \E i \in DOMAIN checkouts :
      /\ checkouts[i].pc = "done" /\ checkouts[i].err = "none"
      /\ checkouts[i].quantity = 1
      /\ checkouts[i].crop.quantity_kg = 1
      /\ cropsTable = [quantity_kg |-> 0, available |-> FALSE]

InProgress(c) == c.pc \in {"invoke", "widget", "insert", "update"}

C18_State ==
    \A i \in DOMAIN checkouts :
      InProgress(checkouts[i]) => paying[checkouts[i].page]

C18_Step ==
    Len(checkouts') > Len(checkouts) =>
      \A i \in DOMAIN checkouts :
        checkouts[i].page = checkouts'[Len(checkouts')].page => ~InProgress(checkouts[i])

(* C18: paying is true for as long as a checkout that passed validation is
   in progress (until its payment result has been handled or an error was
   reported), and no second checkout is started from a page while one of that
   page is in progress. *)
C18_PayingWhileInProgress == [](C18_State) /\ [][C18_Step]_vars

C19_State ==
    /\ \A i \in DOMAIN checkouts : checkouts[i].quantity >= 1
    /\ \A p \in Pages : crop[p].loaded => quantity[p] >= 1
    /\ \A n \in DOMAIN ordersTable :
         ordersTable[n].quantity_kg > 0 /\ ordersTable[n].total_price > 0

C19_Step ==
    \A i \in DOMAIN checkouts :
      Succeeds(i) => cropsTable'.quantity_kg < checkouts[i].crop.quantity_kg

(* C19: every checkout that passes handlePayment's validation, and so every
   one that reaches payment, has a quantity of at least 1; the quantity input
   holds no value below 1; no order with quantity_kg <= 0 or total_price <= 0
   is written; a successful checkout writes a stock smaller than the one the
   page loaded. *)
C19_PositiveQuantity == [](C19_State) /\ [][C19_Step]_vars

WidgetOpened(c) == c.pc \in {"widget", "insert", "update", "done", "dismissed", "rejected"}

(* C20: the widget is opened with the amount of the gateway order the
   order-creation function returned, that order was requested in INR for 100
   times the amount the client sent, so the widget's amount is 100 times the
   crop's price per kg times the quantity. *)
C20_WidgetAmount ==
    \A i \in DOMAIN checkouts :
      LET c == checkouts[i] IN
      WidgetOpened(c) =>
        /\ \E o \in gatewayOrders :
             /\ o.id = WidgetOptions(c).order_id
             /\ o.amount = WidgetOptions(c).amount
             /\ o.currency = "INR"
             /\ o.amount = 100 * c.totalPrice
        /\ WidgetOptions(c).amount = 100 * PricePerKg * c.quantity

C20_Witness ==
    \E i \in DOMAIN checkouts :
      /\ checkouts[i].pc = "widget"
      /\ checkouts[i].quantity = 1
      /\ WidgetOptions(checkouts[i]).amount = 100 * PricePerKg

----------------------------------------------------------------------------
(* Chat page *)

MaxCalls == 2
MaxMessages == 2
MaxSends == 1

(* The page is opened from a crop's detail page: /chat?crop=c1&farmer=f1 *)
cropId == "c1"
farmerId == "f1"
OtherCrop == "c2"

ChatRow(id, b, f, c) == [id |-> id, buyer_id |-> b, farmer_id |-> f, crop_id |-> c]
NoRow == ChatRow(NoChat, "", "", "")

(* .eq('buyer_id', ..).eq('farmer_id', ..).eq('crop_id', ..) *)
Matching(rows, b, f, c) ==
    {k \in DOMAIN rows : rows[k].buyer_id = b /\ rows[k].farmer_id = f /\ rows[k].crop_id = c}

(* .single(): the row when exactly one row matches; with no row or several
   rows, or when the request fails, data is null and the error is returned
   beside it (findOrCreateChat does not read it). *)
Single(rows, ks, failed) ==
    IF ~failed /\ Cardinality(ks) = 1 THEN rows[CHOOSE k \in ks : TRUE] ELSE NoRow

(* `if (existingChat) { setActiveChat(existingChat.id); return; }`, else the
   insert is issued. *)
AfterSelect(existing) == IF existing # NoRow THEN "found" ELSE "insert"

(* .eq('chat_id', chatId).order('created_at', { ascending: true }) *)
RECURSIVE MessagesOf(_, _)
MessagesOf(rows, chat) ==
    IF rows = <<>> THEN <<>>
    ELSE IF Head(rows).chat_id = chat THEN <<Head(rows)>> \o MessagesOf(Tail(rows), chat)
    ELSE MessagesOf(Tail(rows), chat)

(* setActiveChat(id) and, when the value changed, the effect on activeChat:
   the previous channel is removed, fetchMessages(id) is sent and a channel
   filtered on chat_id = id is subscribed (the join completes later). *)
Activate(id) ==
    /\ activeChat' = id
    /\ IF id = activeChat
       THEN UNCHANGED <<fetches, channel>>
       ELSE /\ fetches' = Append(fetches, [chat |-> id, pc |-> "sent", data |-> <<>>])
            /\ channel' = [chat |-> id, joined |-> FALSE, since |-> 0, queue |-> <<>>]

(* The effect on [user, cropId, farmerId] calls findOrCreateChat, which sends
   the lookup. *)
FindOrCreateChat ==
    /\ chatUser # NoUser
    /\ Len(calls) < MaxCalls
    /\ calls' = Append(calls, [pc |-> "select", chat |-> NoChat])
    /\ UNCHANGED <<chatsTable, messagesTable, chatUser, chats, activeChat, messages,
                   fetches, channel, chatToast, newMessage, sends>>
    /\ UNCHANGED <<newMessage, sends>>
    /\ UNCHANGED notChat

(* The lookup returns. *)
SelectReturn(i) ==
    /\ i \in DOMAIN calls
    /\ calls[i].pc = "select"
    /\ \E failed \in BOOLEAN :
         LET existing == Single(chatsTable,
                                Matching(chatsTable, chatUser, farmerId, cropId), failed)
             next == AfterSelect(existing)
         IN /\ calls' = [calls EXCEPT ![i] = [pc |-> next, chat |-> existing.id]]
            /\ IF next = "found"
               THEN Activate(existing.id)
               ELSE UNCHANGED <<activeChat, fetches, channel>>
    /\ UNCHANGED <<chatsTable, messagesTable, chatUser, chats, messages, chatToast>>
    /\ UNCHANGED <<newMessage, sends>>
    /\ UNCHANGED notChat

(* The insert returns: on an error the catch block notifies; otherwise the
   new chat is put first in the list and activated. *)
InsertChatReturn(i) ==
    /\ i \in DOMAIN calls
    /\ calls[i].pc = "insert"
    /\ \E error \in BOOLEAN :
         IF error
         THEN /\ calls' = [calls EXCEPT ![i] = [pc |-> "failed", chat |-> NoChat]]
              /\ chatToast' = "error"
              /\ UNCHANGED <<chatsTable, chats, activeChat, fetches, channel>>
         ELSE LET newChat == ChatRow(Len(chatsTable) + 1, chatUser, farmerId, cropId) IN
              /\ chatsTable' = Append(chatsTable, newChat)
              /\ chats' = <<newChat>> \o chats
              /\ calls' = [calls EXCEPT ![i] = [pc |-> "created", chat |-> newChat.id]]
              /\ Activate(newChat.id)
              /\ UNCHANGED chatToast
    /\ UNCHANGED <<messagesTable, chatUser, messages>>
    /\ UNCHANGED <<newMessage, sends>>
    /\ UNCHANGED notChat

(* A participant's message is inserted into a chat (sendMessage of some
   client); the store notifies the channels that joined with a matching
   filter. created_at is the store's clock at the insert. *)
MessageInserted ==
    /\ Len(messagesTable) < MaxMessages
    /\ \E k \in DOMAIN chatsTable :
         LET row == [id |-> Len(messagesTable) + 1, chat_id |-> chatsTable[k].id,
                     sender_id |-> chatsTable[k].farmer_id, content |-> "hi",
                     created_at |-> Len(messagesTable) + 1]
         IN /\ messagesTable' = Append(messagesTable, row)
            /\ channel' = IF channel.joined /\ channel.chat = row.chat_id
                          THEN [channel EXCEPT !.queue = Append(@, row)]
                          ELSE channel
    /\ UNCHANGED <<chatsTable, chatUser, calls, chats, activeChat, messages, fetches,
                   chatToast>>
    /\ UNCHANGED <<newMessage, sends>>
    /\ UNCHANGED notChat

(* The subscription's join completes: the inserts after it (created_at
   greater than since) are notified. *)
ChannelJoined ==
    /\ channel.chat # NoChat
    /\ ~channel.joined
    /\ channel' = [channel EXCEPT !.joined = TRUE, !.since = Len(messagesTable)]
    /\ UNCHANGED <<chatsTable, messagesTable, chatUser, calls, chats, activeChat,
                   messages, fetches, chatToast>>
    /\ UNCHANGED <<newMessage, sends>>
    /\ UNCHANGED notChat

(* The store runs the query of a fetchMessages request. *)
FetchExec(j) ==
    /\ j \in DOMAIN fetches
    /\ fetches[j].pc = "sent"
    /\ \E error \in BOOLEAN :
         fetches' = [fetches EXCEPT ![j] =
                       IF error THEN [@ EXCEPT !.pc = "error"]
                       ELSE [@ EXCEPT !.pc = "executed",
                                      !.data = MessagesOf(messagesTable, fetches[j].chat)]]
    /\ UNCHANGED <<chatsTable, messagesTable, chatUser, calls, chats, activeChat,
                   messages, channel, chatToast>>
    /\ UNCHANGED <<newMessage, sends>>
    /\ UNCHANGED notChat

(* The response arrives: setMessages(data || []); an error is only logged. *)
FetchReturn(j) ==
    /\ j \in DOMAIN fetches
    /\ fetches[j].pc \in {"executed", "error"}
    /\ messages' = IF fetches[j].pc = "executed" THEN fetches[j].data ELSE messages
    /\ fetches' = [fetches EXCEPT ![j] =
                     [@ EXCEPT !.pc = IF @ = "executed" THEN "done" ELSE "failed"]]
    /\ UNCHANGED <<chatsTable, messagesTable, chatUser, calls, chats, activeChat,
                   channel, chatToast>>
    /\ UNCHANGED <<newMessage, sends>>
    /\ UNCHANGED notChat

(* A realtime INSERT notification is delivered:
   setMessages(prev => [...prev, payload.new]) *)
Notify ==
    /\ channel.queue # <<>>
    /\ messages' = Append(messages, Head(channel.queue))
    /\ channel' = [channel EXCEPT !.queue = Tail(@)]
    /\ UNCHANGED <<chatsTable, messagesTable, chatUser, calls, chats, activeChat,
                   fetches, chatToast>>
    /\ UNCHANGED <<newMessage, sends>>
    /\ UNCHANGED notChat

(* The sidebar button of a conversation: setActiveChat(chat.id). *)
OpenChat(k) ==
    /\ chatUser # NoUser
    /\ k \in DOMAIN chatsTable
    /\ Len(fetches) < MaxCalls
    /\ Activate(chatsTable[k].id)
    /\ UNCHANGED <<chatsTable, messagesTable, chatUser, calls, chats, messages, chatToast,
                   newMessage, sends>>
    /\ UNCHANGED notChat

(* The back button: setActiveChat(null); the effect's cleanup removes the
   channel. *)
CloseChat ==
    /\ activeChat # NoChat
    /\ activeChat' = NoChat
    /\ channel' = NoChannel
    /\ UNCHANGED <<chatsTable, messagesTable, chatUser, calls, chats, messages, fetches,
                   chatToast, newMessage, sends>>
    /\ UNCHANGED notChat

(* What is typed into the message input. *)
TypedMessages == {"", " ", "hi", " hi "}

SetNewMessage(text) ==
    /\ newMessage' = text
    /\ UNCHANGED <<chatsTable, messagesTable, chatUser, calls, chats, activeChat, messages,
                   fetches, channel, chatToast, sends>>
    /\ UNCHANGED notChat

(* Faulty variant: the text is sent as typed. *)
MessageContentRaw(text) == text
(* `content: newMessage.trim()` *)
MessageContent(text) == Trim(text)

(* `if (!newMessage.trim() || !activeChat || !user) return;` *)
CanSend(text, chat, u) == ~(Trim(text) = "" \/ chat = NoChat \/ u = NoUser)

(* sendMessage up to the await of its insert. *)
SendMessage ==
    /\ Len(sends) < MaxSends
    /\ IF CanSend(newMessage, activeChat, chatUser)
       THEN sends' = Append(sends, [pc |-> "insert", chat_id |-> activeChat,
                                    sender_id |-> Prop(FirebaseUser(chatUser), "uid"),
                                    content |-> MessageContent(newMessage)])
       ELSE UNCHANGED sends
    /\ UNCHANGED <<chatsTable, messagesTable, chatUser, calls, chats, activeChat, messages,
                   fetches, channel, chatToast, newMessage>>
    /\ UNCHANGED notChat

(* The insert returns {error}: on success the row is stored (and notified to
   the joined channel of its chat) and the input is cleared; on error the
   catch shows the notification. *)
SendInsertReturn(n) ==
    /\ n \in DOMAIN sends
    /\ sends[n].pc = "insert"
    /\ \E error \in BOOLEAN :
         IF error
         THEN /\ chatToast' = "error"
              /\ sends' = [sends EXCEPT ![n].pc = "failed"]
              /\ UNCHANGED <<messagesTable, channel, newMessage>>
         ELSE LET row == [id |-> Len(messagesTable) + 1, chat_id |-> sends[n].chat_id,
                          sender_id |-> sends[n].sender_id, content |-> sends[n].content,
                          created_at |-> Len(messagesTable) + 1]
              IN /\ messagesTable' = Append(messagesTable, row)
                 /\ channel' = IF channel.joined /\ channel.chat = row.chat_id
                               THEN [channel EXCEPT !.queue = Append(@, row)]
                               ELSE channel
                 /\ newMessage' = ""
                 /\ sends' = [sends EXCEPT ![n].pc = "update"]
                 /\ UNCHANGED chatToast
    /\ UNCHANGED <<chatsTable, chatUser, calls, chats, activeChat, messages, fetches>>
    /\ UNCHANGED notChat

(* The update of the chat's updated_at returns; its error is not read. *)
SendUpdateReturn(n) ==
    /\ n \in DOMAIN sends
    /\ sends[n].pc = "update"
    /\ sends' = [sends EXCEPT ![n].pc = "done"]
    /\ UNCHANGED <<chatsTable, messagesTable, chatUser, calls, chats, activeChat, messages,
                   fetches, channel, chatToast, newMessage>>
    /\ UNCHANGED notChat

ChatInit ==
    /\ chatsTable = <<ChatRow(1, "u1", farmerId, OtherCrop)>>
    /\ messagesTable = <<>>
    /\ chatUser \in Uids \cup {NoUser}
    /\ calls = <<>>
    /\ chats = <<>>
    /\ activeChat = NoChat
    /\ messages = <<>>
    /\ fetches = <<>>
    /\ channel = NoChannel
    /\ chatToast = "none"
    /\ newMessage = ""
    /\ sends = <<>>
    /\ CheckoutIdle
    /\ AuthIdle
    /\ PhoneIdle
    /\ RestIdle

ChatNext ==
    \/ FindOrCreateChat
    \/ \E i \in 1..MaxCalls : SelectReturn(i)
    \/ \E i \in 1..MaxCalls : InsertChatReturn(i)
    \/ MessageInserted
    \/ ChannelJoined
    \/ \E j \in 1..MaxCalls : FetchExec(j)
    \/ \E j \in 1..MaxCalls : FetchReturn(j)
    \/ Notify

SpecChat == ChatInit /\ [][ChatNext]_vars

(* Writing in a conversation of the list: the sidebar, the input and
   sendMessage, with the realtime subscription of the open conversation. *)
SendNext ==
    \/ \E k \in 1..MaxCalls : OpenChat(k)
    \/ CloseChat
    \/ \E text \in TypedMessages : SetNewMessage(text)
    \/ SendMessage
    \/ \E n \in 1..MaxSends : SendInsertReturn(n)
    \/ \E n \in 1..MaxSends : SendUpdateReturn(n)
    \/ ChannelJoined
    \/ \E j \in 1..MaxCalls : FetchExec(j)
    \/ \E j \in 1..MaxCalls : FetchReturn(j)
    \/ Notify

SpecSend == ChatInit /\ [][SendNext]_vars

(* Properties of the chat page *)

SameTriple(r1, r2) ==
    r1.buyer_id = r2.buyer_id /\ r1.farmer_id = r2.farmer_id /\ r1.crop_id = r2.crop_id

C7_Unique ==
    \A k1, k2 \in DOMAIN chatsTable :
      SameTriple(chatsTable[k1], chatsTable[k2]) => k1 = k2

C7_Step ==
    chatsTable' # chatsTable =>
      Matching(chatsTable, chatUser, farmerId, cropId) = {}

(* C7: the chats table holds at most one chat for each (buyer_id, farmer_id,
   crop_id), and findOrCreateChat creates a chat only when none exists for
   the triple (otherwise it activates the existing one). *)
C7_OneChatPerTriple == [](C7_Unique) /\ [][C7_Step]_vars

Count(seq, x) == Cardinality({n \in DOMAIN seq : seq[n] = x})

(* The fetch of the active chat returned and no notification is in flight. *)
Processed ==
    /\ activeChat # NoChat
    /\ channel.chat = activeChat /\ channel.joined /\ channel.queue = <<>>
    /\ \A j \in DOMAIN fetches : fetches[j].pc = "done"

(* C8: once the fetchMessages response and the realtime notifications of the
   active chat are processed, every message of the chat that was inserted
   after the subscription joined (so that an INSERT notification was sent
   for it) is in the list shown, and no message is in it twice. *)
C8_ExactlyOnce ==
    Processed =>
      \A k \in DOMAIN messagesTable :
        messagesTable[k].chat_id = activeChat =>
          /\ Count(messages, messagesTable[k]) <= 1
          /\ messagesTable[k].created_at > channel.since
               => Count(messages, messagesTable[k]) = 1

(* C9: the messages shown are in ascending created_at order in every state. *)
C9_Ascending ==
    \A m, n \in DOMAIN messages :
      m < n => messages[m].created_at <= messages[n].created_at

----------------------------------------------------------------------------
(* Properties of sendMessage *)

C13_Rows ==
    \A m \in DOMAIN messagesTable :
      /\ messagesTable[m].content # ""
      /\ messagesTable[m].content = Trim(messagesTable[m].content)
      /\ messagesTable[m].chat_id # NoChat
      /\ messagesTable[m].sender_id \in Uids

C13_Step ==
    /\ Len(sends') > Len(sends) =>
         /\ Trim(newMessage) # "" /\ activeChat # NoChat /\ chatUser # NoUser
         /\ sends'[Len(sends')] = [pc |-> "insert", chat_id |-> activeChat,
                                   sender_id |-> chatUser, content |-> Trim(newMessage)]
    /\ messagesTable' # messagesTable =>
         \E n \in DOMAIN sends :
           LET row == messagesTable'[Len(messagesTable')] IN
           /\ sends[n].pc = "insert" /\ sends'[n].pc = "update"
           /\ messagesTable' = Append(messagesTable, row)
           /\ row.chat_id = sends[n].chat_id
           /\ row.sender_id = sends[n].sender_id
           /\ row.content = sends[n].content
           /\ newMessage' = ""
    /\ (sends' # sends /\ newMessage' # newMessage) =>
         messagesTable' # messagesTable
    /\ \A n \in DOMAIN sends :
         (sends[n].pc = "insert" /\ sends'[n].pc = "failed") =>
           /\ chatToast' = "error"
           /\ newMessage' = newMessage
           /\ messagesTable' = messagesTable

(* C13: sendMessage sends no insert when the text is blank after trimming,
   when no chat is active or when no user is signed in; a message it inserts
   has the trimmed text as content, the active chat as chat_id and the user's
   uid as sender_id; sendMessage clears the input only with a successful
   insert; a failed insert shows an error notification, keeps the text and
   stores nothing. *)
C13_SendMessage == [](C13_Rows) /\ [][C13_Step]_vars

C13_Witness ==
    /\ Len(messagesTable) = 1
    /\ messagesTable[1].content = "hi"
    /\ newMessage = ""
    /\ sends # <<>> /\ sends[1].pc = "update"

----------------------------------------------------------------------------
(* AuthProvider: the onAuthStateChanged callback *)

MaxEvents == 2

(* What the callback does with firebaseUser before its await. *)
Resolve(firebaseUser) ==
    IF firebaseUser = NoUser THEN "signedOut"
    ELSE IF FirebaseUser(firebaseUser).phoneNumber = ADMIN_PHONE THEN "admin"
    ELSE "lookup"

(* .select('role').eq('id', uid).single(): data is the row, or null when no
   row exists or the request fails (the callback does not read the error). *)
ProfileData(uid, failed) == IF failed THEN NoProfile ELSE profiles[uid]

(* `if (data?.role)` *)
HasRole(data) == data # NoProfile

InFlight == {h \in DOMAIN handlers : handlers[h].pc \in {"upsert", "select"}}

(* Another step interleaves with the callbacks in flight. *)
Interleaved(hs) == [h \in DOMAIN hs |-> IF h \in InFlight THEN [hs[h] EXCEPT !.clean = FALSE]
                                        ELSE hs[h]]

(* The identity provider reports an auth state: the callback runs up to its
   await (or to its end, when nobody is signed in). *)
AuthStateChanged(firebaseUser) ==
    /\ Len(handlers) < MaxEvents
    /\ user' = firebaseUser
    /\ LET r == Resolve(firebaseUser)
           h == [firebaseUser |-> firebaseUser,
                 pc |-> CASE r = "signedOut" -> "done"
                          [] r = "admin" -> "upsert"
                          [] OTHER -> "select",
                 clean |-> InFlight = {}]
       IN /\ handlers' = Append(Interleaved(handlers), h)
          /\ CASE r = "signedOut" ->
                    /\ userRole' = NoRole
                    /\ needsRoleSelection' = FALSE
                    /\ loading' = FALSE
               [] r = "admin" ->
                    /\ userRole' = "admin"
                    /\ needsRoleSelection' = FALSE
                    /\ loading' = loading
               [] OTHER -> UNCHANGED <<userRole, needsRoleSelection, loading>>
    /\ UNCHANGED profiles
    /\ UNCHANGED notAuth

(* The admin profile upsert returns (its error is not read): setLoading(false). *)
UpsertReturn(h) ==
    /\ h \in DOMAIN handlers
    /\ handlers[h].pc = "upsert"
    /\ \E error \in BOOLEAN :
         profiles' = IF error THEN profiles
                     ELSE [profiles EXCEPT ![handlers[h].firebaseUser] = "admin"]
    /\ loading' = FALSE
    /\ handlers' = [handlers EXCEPT ![h] = [@ EXCEPT !.pc = "done"]]
    /\ UNCHANGED <<user, userRole, needsRoleSelection, signingOut>>
    /\ UNCHANGED notAuth

(* The profile lookup returns. *)
ProfileReturn(h) ==
    /\ h \in DOMAIN handlers
    /\ handlers[h].pc = "select"
    /\ \E failed \in BOOLEAN :
         LET data == ProfileData(handlers[h].firebaseUser, failed) IN
         IF HasRole(data)
         THEN /\ userRole' = data
              /\ needsRoleSelection' = FALSE
         ELSE /\ needsRoleSelection' = TRUE
              /\ userRole' = NoRole
    /\ loading' = FALSE
    /\ handlers' = [handlers EXCEPT ![h] = [@ EXCEPT !.pc = "done"]]
    /\ UNCHANGED <<user, profiles, signingOut>>
    /\ UNCHANGED notAuth

AuthInit ==
    /\ user = NoUser
    /\ loading = TRUE
    /\ userRole = NoRole
    /\ needsRoleSelection = FALSE
    /\ \E r1 \in {NoProfile, "farmer", "buyer"}, ra \in {NoProfile, "buyer"} :
         profiles = [u \in AuthUsers |-> IF u = AdminUid THEN ra ELSE r1]
    /\ handlers = <<>>
    /\ signingOut = FALSE
    /\ CheckoutIdle
    /\ ChatIdle
    /\ PhoneIdle
    /\ RestIdle

(* The sign-out button of the header (rendered while a user is signed in):
   signOut up to its await.  auth.signOut() signs the user out at the identity
   provider, which reports it to the auth context. *)
SignOut ==
    /\ user # NoUser
    /\ ~signingOut
    /\ AuthStateChanged(NoUser)
    /\ signingOut' = TRUE

(* signOut after its await: setUserRoleState(null), setNeedsRoleSelection(false). *)
SignOutReturn ==
    /\ signingOut
    /\ signingOut' = FALSE
    /\ userRole' = NoRole
    /\ needsRoleSelection' = FALSE
    /\ handlers' = Interleaved(handlers)
    /\ UNCHANGED <<user, loading, profiles>>
    /\ UNCHANGED notAuth

AuthNext ==
    \/ \E u \in AuthUsers \cup {NoUser} :
         AuthStateChanged(u) /\ UNCHANGED signingOut /\ UNCHANGED phoneVars
    \/ SignOut /\ UNCHANGED phoneVars
    \/ SignOutReturn /\ UNCHANGED phoneVars
    \/ \E h \in 1..MaxEvents : UpsertReturn(h) /\ UNCHANGED phoneVars
    \/ \E h \in 1..MaxEvents : ProfileReturn(h) /\ UNCHANGED phoneVars

SpecAuth == AuthInit /\ [][AuthNext]_vars

(* Properties of the auth context *)

Completes(h) == handlers[h].pc # "done" /\ handlers'[h].pc = "done" /\ handlers'[h].clean

C10_Step ==
    /\ \A h \in DOMAIN handlers :
         Completes(h) =>
           LET u == handlers[h].firebaseUser IN
             /\ loading' = FALSE
             /\ user' = u
             /\ IF PhoneOf(u) = ADMIN_PHONE
                THEN userRole' = "admin" /\ ~needsRoleSelection' /\ handlers[h].pc = "upsert"
                ELSE IF profiles[u] # NoProfile
                THEN userRole' = profiles[u] /\ ~needsRoleSelection'
                ELSE userRole' = NoRole /\ needsRoleSelection'
    /\ \A h \in DOMAIN handlers' \ DOMAIN handlers :
         (handlers'[h].pc = "done" /\ handlers'[h].clean) =>
           /\ user' = NoUser /\ userRole' = NoRole /\ ~needsRoleSelection' /\ ~loading'

(* C10: when the handling of one auth event completes with no other event
   interleaved: the admin phone gives userRole admin, no role selection and
   an admin profile upsert; otherwise a stored role gives that role and no
   role selection; otherwise no role and role selection; nobody signed in
   gives no role and no role selection; loading is false afterwards. *)
C10_RoleResolution == [][C10_Step]_vars

----------------------------------------------------------------------------
(* Edge function create-razorpay-order *)

MaxRequests == 1
MaxAmount == 2

corsHeaders == {"Access-Control-Allow-Origin", "Access-Control-Allow-Headers"}
JsonHeaders == corsHeaders \cup {"Content-Type"}

Methods == {"OPTIONS", "POST", "GET"}

(* A request body: not JSON (req.json() rejects), the JSON value null (the
   destructuring throws), or an object with the fields the client sends. *)
Body(kind, amount) == [kind |-> kind, amount |-> amount]
Bodies == {Body("unreadable", 0), Body("null", 0)}
            \cup {Body("object", a) : a \in 0..MaxAmount}

(* The values an environment variable may have; `!x` holds for the first two. *)
EnvValues == {Undefined, "", "rzp"}
Falsy(x) == x \in {Undefined, ""}

(* Faulty variant: only the key id is required. *)
CredentialsMissingIdOnly(e) == Falsy(e.Razorpay_apikey)
(* `if (!razorpayKeyId || !razorpayKeySecret)` *)
CredentialsMissing(e) == Falsy(e.Razorpay_apikey) \/ Falsy(e.Razorpay_key_secret)

NoBody == [kind |-> "none", order |-> NoOrderData, error |-> ""]
NoEdgeResponse == [status |-> 0, headers |-> {}, body |-> NoBody]

(* new Response(null, { headers: corsHeaders }) *)
PreflightResponse == [status |-> 200, headers |-> corsHeaders, body |-> NoBody]

(* new Response(JSON.stringify(order), { headers: {...corsHeaders, 'Content-Type'} }) *)
OrderResponse(order) ==
    [status |-> 200, headers |-> JsonHeaders,
     body |-> [kind |-> "order", order |-> order, error |-> ""]]

(* The catch: status 500 and {error: message}. *)
ErrorResponse(message) ==
    [status |-> 500, headers |-> JsonHeaders,
     body |-> [kind |-> "error", order |-> NoOrderData, error |-> message]]

(* The handler up to its first await; an OPTIONS request is answered at once. *)
Serve(method, body) ==
    /\ Len(requests) < MaxRequests
    /\ requests' = Append(requests,
         [method |-> method, body |-> body, read |-> FALSE, called |-> FALSE,
          pc |-> IF method = "OPTIONS" THEN "responded" ELSE "json",
          response |-> IF method = "OPTIONS" THEN PreflightResponse ELSE NoEdgeResponse])
    /\ UNCHANGED <<env, gatewayCalls>>
    /\ UNCHANGED notEdge

(* req.json() settles; then the credentials are read and the order request is
   sent to the gateway. *)
ReadBody(r) ==
    /\ r \in DOMAIN requests
    /\ requests[r].pc = "json"
    /\ LET req == requests[r] IN
       IF req.body.kind # "object"
       THEN /\ requests' = [requests EXCEPT ![r] =
                 [req EXCEPT !.read = TRUE, !.pc = "responded",
                             !.response = ErrorResponse("body")]]
            /\ UNCHANGED gatewayCalls
       ELSE IF CredentialsMissing(env)
       THEN /\ requests' = [requests EXCEPT ![r] =
                 [req EXCEPT !.read = TRUE, !.pc = "responded",
                             !.response = ErrorResponse("Razorpay credentials not configured")]]
            /\ UNCHANGED gatewayCalls
       ELSE /\ requests' = [requests EXCEPT ![r] =
                 [req EXCEPT !.read = TRUE, !.called = TRUE, !.pc = "fetch"]]
            /\ gatewayCalls' = Append(gatewayCalls,
                 [request |-> r, order |-> GatewayOrderRequest(req.body.amount)])
    /\ UNCHANGED env
    /\ UNCHANGED notEdge

(* The gateway's answer: an order (response.ok), a non-OK response, or no
   usable answer at all (fetch or response.json() throws). *)
GatewayOutcomes == {"ok", "notOk", "thrown"}

GatewayReturn(r, outcome) ==
    /\ r \in DOMAIN requests
    /\ requests[r].pc = "fetch"
    /\ \E g \in DOMAIN gatewayCalls :
         /\ gatewayCalls[g].request = r
         /\ requests' = [requests EXCEPT ![r] =
              [@ EXCEPT !.pc = "responded",
                        !.response =
                           CASE outcome = "ok" ->
                                  OrderResponse(GatewayOrder(g, gatewayCalls[g].order))
                             [] outcome = "notOk" ->
                                  ErrorResponse("Failed to create Razorpay order")
                             [] OTHER -> ErrorResponse("thrown")]]
    /\ UNCHANGED <<env, gatewayCalls>>
    /\ UNCHANGED notEdge

EdgeInit ==
    /\ env \in [{"Razorpay_apikey", "Razorpay_key_secret"} -> EnvValues]
    /\ requests = <<>>
    /\ gatewayCalls = <<>>
    /\ CheckoutIdle
    /\ ChatIdle
    /\ AuthIdle
    /\ PhoneIdle
    /\ EmailIdle
    /\ RoleFirstIdle

EdgeNext ==
    \/ \E method \in Methods, body \in Bodies : Serve(method, body)
    \/ \E r \in 1..MaxRequests : ReadBody(r)
    \/ \E r \in 1..MaxRequests, outcome \in GatewayOutcomes : GatewayReturn(r, outcome)

SpecEdge == EdgeInit /\ [][EdgeNext]_vars

(* Properties of the edge function *)

Responded == {r \in DOMAIN requests : requests[r].pc = "responded"}
CallsOf(r) == {g \in DOMAIN gatewayCalls : gatewayCalls[g].request = r}

C14_Responses ==
    \A r \in Responded :
      LET req == requests[r]
          res == req.response
      IN /\ corsHeaders \subseteq res.headers
         /\ IF req.method = "OPTIONS"
            THEN ~req.read /\ CallsOf(r) = {} /\ res.body.kind = "none"
            ELSE /\ \/ /\ res.status = 200 /\ res.body.kind = "order"
                       /\ \E g \in CallsOf(r) :
                            res.body.order = GatewayOrder(g, gatewayCalls[g].order)
                    \/ /\ res.status = 500 /\ res.body.kind = "error"
                       /\ "Content-Type" \in res.headers
                 /\ req.body.kind # "object" => res.status = 500
                 /\ (Falsy(env.Razorpay_apikey) \/ Falsy(env.Razorpay_key_secret)) =>
                      (res.status = 500 /\ CallsOf(r) = {})

C14_Step ==
    \A r \in DOMAIN requests, outcome \in {"notOk", "thrown"} :
      GatewayReturn(r, outcome) => requests'[r].response.status = 500

(* C14: every non-OPTIONS request is answered with the gateway's order as
   JSON or, on an unreadable body, missing credentials or a non-OK gateway
   response, with status 500 and a JSON error; with a credential missing no
   call to the gateway is made; an OPTIONS request is answered without
   reading the body or calling the gateway; every response carries the CORS
   headers. *)
C14_EdgeResponses == [](C14_Responses) /\ [][C14_Step]_vars

C14_Witness ==
    \E r \in Responded :
      /\ requests[r].method = "POST"
      /\ requests[r].response.status = 200
      /\ requests[r].response.body.order.amount = 100 * MaxAmount

----------------------------------------------------------------------------
(* Auth page: sign-in and sign-up with email and password *)

MaxAuthCalls == 2

(* What the email and password fields may hold at submit. *)
TypedEmails ==
    { <<>>,
      <<"a">>,
      <<"a", "@", "b">>,
      <<"a", "@", "b", ".", "c", "o">> }

TypedPasswords ==
    { <<>>,
      <<"s", "e", "c", "r", "e">>,
      <<"s", "e", "c", "r", "e", "t">> }

Positions(str, c) == {i \in DOMAIN str : str[i] = c}
Last(S) == CHOOSE i \in S : \A j \in S : j <= i

(* z.string().email(): one "@" after a non-empty local part, then labels
   separated by dots, the last of at least two characters. *)
IsEmail(e) ==
    /\ Cardinality(Positions(e, "@")) = 1
    /\ LET at == Last(Positions(e, "@"))
           dots == {i \in Positions(e, ".") : i > at}
       IN /\ at > 1
          /\ dots # {}
          /\ \A d \in dots : d > at + 1 /\ e[d - 1] # "."
          /\ Len(e) - Last(dots) >= 2

(* Faulty variant: the password's length is not checked. *)
SchemaAcceptsAnyPassword(email, password) == IsEmail(email)
(* authSchema.parse({ email, password, role }) does not throw. *)
SchemaAccepts(email, password) == IsEmail(email) /\ Len(password) >= 6

AuthCall(mode, email, password, requested, pc) ==
    [mode |-> mode, email |-> email, password |-> password, requested |-> requested,
     pc |-> pc]

SetRole(r) ==
    /\ authNav = "/auth"
    /\ formRole' = r
    /\ UNCHANGED <<authIsLoading, authToast, authNav, authCalls>>
    /\ UNCHANGED notEmail

(* handleAuth up to its await: a parse error is caught at once. *)
HandleAuth(mode, email, password) ==
    /\ authNav = "/auth"
    /\ ~authIsLoading
    /\ Len(authCalls) < MaxAuthCalls
    /\ IF SchemaAccepts(email, password)
       THEN /\ authCalls' = Append(authCalls, AuthCall(mode, email, password, TRUE, "request"))
            /\ authIsLoading' = TRUE
            /\ UNCHANGED authToast
       ELSE /\ authCalls' = Append(authCalls, AuthCall(mode, email, password, FALSE, "caught"))
            /\ authIsLoading' = FALSE
            /\ authToast' = "Error"
    /\ UNCHANGED <<formRole, authNav>>
    /\ UNCHANGED notEmail

(* signUp or signInWithPassword returns {error}. *)
AuthReturn(n) ==
    /\ n \in DOMAIN authCalls
    /\ authCalls[n].pc = "request"
    /\ \E error \in BOOLEAN :
         IF error
         THEN /\ authCalls' = [authCalls EXCEPT ![n].pc = "caught"]
              /\ authToast' = "Error"
              /\ UNCHANGED authNav
         ELSE /\ authCalls' = [authCalls EXCEPT ![n].pc = "done"]
              /\ IF authCalls[n].mode = "signup"
                 THEN /\ authToast' = "Account created!"
                      /\ UNCHANGED authNav
                 ELSE /\ authToast' = "Welcome back!"
                      /\ authNav' = "/marketplace"
    /\ authIsLoading' = FALSE
    /\ UNCHANGED formRole
    /\ UNCHANGED notEmail

EmailInit ==
    /\ EmailIdle
    /\ RoleFirstIdle
    /\ EdgeIdle
    /\ CheckoutIdle
    /\ ChatIdle
    /\ AuthIdle
    /\ PhoneIdle

EmailNext ==
    \/ \E r \in {"farmer", "buyer"} : SetRole(r)
    \/ \E mode \in {"signin", "signup"}, email \in TypedEmails, password \in TypedPasswords :
         HandleAuth(mode, email, password)
    \/ \E n \in 1..MaxAuthCalls : AuthReturn(n)

SpecEmail == EmailInit /\ [][EmailNext]_vars

(* Properties of the Auth page *)

Finished(c) == c.pc \in {"done", "caught"}

C15_State ==
    /\ \A n \in DOMAIN authCalls :
         authCalls[n].requested =>
           /\ IsEmail(authCalls[n].email)
           /\ Len(authCalls[n].password) >= 6
    /\ (\A n \in DOMAIN authCalls : Finished(authCalls[n])) => ~authIsLoading

C15_Step ==
    \A n \in DOMAIN authCalls' :
      LET c == authCalls'[n]
          new == n \notin DOMAIN authCalls \/ ~Finished(authCalls[n])
      IN (new /\ Finished(c)) =>
           /\ ~authIsLoading'
           /\ IF c.pc = "caught"
              THEN authToast' = "Error" /\ authNav' = authNav
              ELSE IF c.mode = "signin"
              THEN authNav' = "/marketplace" /\ c.requested
              ELSE authNav' = authNav /\ c.requested

(* C15: handleAuth sends a sign-up or sign-in request only for a well-formed
   email and a password of at least 6 characters; a validation error or a
   remote error shows an error notification and does not navigate; a
   successful sign-in navigates to /marketplace and a successful sign-up does
   not navigate; isLoading is false whenever handleAuth has finished. *)
C15_HandleAuth == [](C15_State) /\ [][C15_Step]_vars

C15_Witness ==
    \E n \in DOMAIN authCalls :
      /\ authCalls[n].mode = "signin" /\ authCalls[n].pc = "done"
      /\ authNav = "/marketplace"
      /\ \E m \in DOMAIN authCalls : ~authCalls[m].requested

----------------------------------------------------------------------------
(* PhoneAuth page: phone number, one-time code, role selection *)

DEV_ADMIN_PHONE == <<"9", "3", "8", "1", "1", "7", "9", "8", "6", "7">>
DEV_ADMIN_OTP == <<"5", "6", "7", "8", "9", "0">>

(* Strings are sequences of characters here, so that length, prefix and
   concatenation are computed. *)
Digits == {"0", "1", "2", "3", "4", "5", "6", "7", "8", "9"}
IsDigit(c) == c \in Digits

(* value.replace(/\D/g, '').slice(0, n) of the two inputs *)
DigitsSlice(raw, n) ==
    LET d == SelectSeq(raw, IsDigit) IN SubSeq(d, 1, Min(Len(d), n))

UserPhone == <<"9", "8", "7", "6", "5", "4", "3", "2", "1", "0">>

(* What is typed or pasted into the phone input. *)
TypedPhones ==
    { <<>>,
      <<"9", "8", "7">>,
      UserPhone,
      <<"9", "8", "7", "6", "5", "-", "4", "3", "2", "1", "0">>,
      DEV_ADMIN_PHONE }

(* What is typed or pasted into the code input. *)
TypedOtps ==
    { <<>>,
      <<"1", "2", "3">>,
      <<"1", "2", "3", "4", "5", "6">>,
      <<"5", "6", "7", "8", "9", "0", "1">> }

(* Faulty variant: any non-empty phone passes. *)
ValidPhoneAnyLength(p) == p # <<>>
(* `!phone || phone.length < 10` is the rejection in sendOTP *)
ValidPhone(p) == ~(p = <<>> \/ Len(p) < 10)

(* `!otp || otp.length !== 6` is the rejection in verifyOTP *)
ValidOtp(o) == ~(o = <<>> \/ Len(o) # 6)

(* phone.startsWith('+') ? phone : `+91${phone}` *)
FormatPhone(p) == IF p # <<>> /\ Head(p) = "+" THEN p ELSE <<"+", "9", "1">> \o p

(* The characters of ADMIN_PHONE, and the account the identity provider signs
   in for a confirmed number. *)
AdminPhoneChars == <<"+", "9", "1">> \o DEV_ADMIN_PHONE
UidOfPhone(formatted) == IF formatted = AdminPhoneChars THEN AdminUid ELSE "u1"

(* `isDevMode && phone === DEV_ADMIN_PHONE && otp === DEV_ADMIN_OTP` *)
DevBypassNever(dev, p, o) == FALSE
DevBypass(dev, p, o) == dev /\ p = DEV_ADMIN_PHONE /\ o = DEV_ADMIN_OTP

(* redirectBasedOnRole *)
RouteOf(role) ==
    CASE role = "admin" -> "/admin"
      [] role = "farmer" -> "/farmer-dashboard"
      [] OTHER -> "/marketplace"

(* The form is rendered once the auth context has stopped loading, and until
   the page navigates away. *)
PhoneMounted == phoneNav = "/auth" /\ ~loading

(* The two effects on the auth context: `if (user && needsRoleSelection)
   setStep('role')` runs when user or needsRoleSelection changed, the redirect
   when user, userRole, needsRoleSelection or loading changed.  s and n are the
   step and the route the handler itself leaves. *)
RoleEffect(s) ==
    step' = IF /\ <<user', needsRoleSelection'>> # <<user, needsRoleSelection>>
               /\ user' # NoUser /\ needsRoleSelection'
            THEN "role" ELSE s

RedirectEffect(n) ==
    phoneNav' = IF /\ <<user', userRole', needsRoleSelection', loading'>>
                        # <<user, userRole, needsRoleSelection, loading>>
                   /\ ~loading' /\ user' # NoUser /\ userRole' # NoRole
                   /\ ~needsRoleSelection'
                THEN RouteOf(userRole') ELSE n

(* A step of the auth context while the page is open. *)
OnAuthContext ==
    /\ phoneNav = "/auth"
    /\ RoleEffect(step)
    /\ RedirectEffect(phoneNav)
    /\ phoneOp' = NoPhoneOp
    /\ UNCHANGED <<phone, otp, isLoading, confirmationResult, isDevMode, phoneToast, pending,
                   recaptchaVerifier>>

SetPhone(raw) ==
    /\ PhoneMounted /\ step = "phone"
    /\ phone' = DigitsSlice(raw, 10)
    /\ phoneOp' = NoPhoneOp
    /\ UNCHANGED <<otp, step, isLoading, confirmationResult, isDevMode, phoneToast,
                   phoneNav, pending, recaptchaVerifier>>
    /\ UNCHANGED <<authVars, notAuth>>

SetOtp(raw) ==
    /\ PhoneMounted /\ step = "otp"
    /\ otp' = DigitsSlice(raw, 6)
    /\ phoneOp' = NoPhoneOp
    /\ UNCHANGED <<phone, step, isLoading, confirmationResult, isDevMode, phoneToast,
                   phoneNav, pending, recaptchaVerifier>>
    /\ UNCHANGED <<authVars, notAuth>>

(* The "change phone" button of the code step. *)
ChangePhone ==
    /\ PhoneMounted /\ step = "otp"
    /\ step' = "phone"
    /\ isDevMode' = FALSE
    /\ phoneOp' = NoPhoneOp
    /\ UNCHANGED <<phone, otp, isLoading, confirmationResult, phoneToast, phoneNav, pending,
                   recaptchaVerifier>>
    /\ UNCHANGED <<authVars, notAuth>>

(* sendOTP up to its await.  The verifier exists when the form was rendered
   at the page's first render; without it the call throws before any request. *)
SendOTP ==
    /\ PhoneMounted /\ step = "phone" /\ ~isLoading
    /\ phoneOp' = PhoneOp("sendOTP", ValidPhone(phone))
    /\ IF ~ValidPhone(phone)
       THEN /\ phoneToast' = "invalidPhone"
            /\ UNCHANGED <<step, isLoading, isDevMode, pending>>
       ELSE IF phone = DEV_ADMIN_PHONE
       THEN /\ isDevMode' = TRUE
            /\ step' = "otp"
            /\ phoneToast' = "devMode"
            /\ UNCHANGED <<isLoading, pending>>
       ELSE IF ~recaptchaVerifier
       THEN /\ phoneToast' = "error"
            /\ UNCHANGED <<step, isLoading, isDevMode, pending>>
       ELSE /\ isLoading' = TRUE
            /\ pending' = [kind |-> "sendOTP", phone |-> FormatPhone(phone)]
            /\ UNCHANGED <<step, isDevMode, phoneToast>>
    /\ UNCHANGED <<phone, otp, confirmationResult, phoneNav, recaptchaVerifier>>
    /\ UNCHANGED <<authVars, notAuth>>

(* signInWithPhoneNumber returns or throws. *)
SendOtpReturn ==
    /\ pending.kind = "sendOTP"
    /\ \E ok \in BOOLEAN :
         /\ phoneOp' = PhoneOp("sendOtpReturn", ok)
         /\ IF ok
            THEN /\ confirmationResult' = [phone |-> pending.phone]
                 /\ step' = "otp"
                 /\ phoneToast' = "otpSent"
            ELSE /\ phoneToast' = "error"
                 /\ UNCHANGED <<confirmationResult, step>>
    /\ isLoading' = FALSE
    /\ pending' = NoPending
    /\ UNCHANGED <<phone, otp, isDevMode, phoneNav, recaptchaVerifier>>
    /\ UNCHANGED <<authVars, notAuth>>

(* verifyOTP up to its await. *)
VerifyOTP ==
    /\ PhoneMounted /\ step = "otp" /\ ~isLoading
    /\ phoneOp' = PhoneOp("verifyOTP", ValidOtp(otp))
    /\ IF ~ValidOtp(otp)
       THEN /\ phoneToast' = "invalidOtp"
            /\ UNCHANGED <<isLoading, pending>>
       ELSE IF DevBypass(isDevMode, phone, otp)
       THEN /\ phoneToast' = "devModeOnly"
            /\ UNCHANGED <<isLoading, pending>>
       ELSE IF confirmationResult = NoConfirmation
       THEN /\ phoneToast' = "error"
            /\ UNCHANGED <<isLoading, pending>>
       ELSE /\ isLoading' = TRUE
            /\ pending' = [kind |-> "confirm", phone |-> confirmationResult.phone,
                           otp |-> otp]
            /\ UNCHANGED phoneToast
    /\ UNCHANGED <<phone, otp, step, confirmationResult, isDevMode, phoneNav, recaptchaVerifier>>
    /\ UNCHANGED <<authVars, notAuth>>

(* confirmationResult.confirm(otp) throws: nobody is signed in. *)
ConfirmRejected ==
    /\ pending.kind = "confirm"
    /\ phoneOp' = PhoneOp("confirmReturn", FALSE)
    /\ phoneToast' = "error"
    /\ isLoading' = FALSE
    /\ pending' = NoPending
    /\ UNCHANGED <<phone, otp, step, confirmationResult, isDevMode, phoneNav, recaptchaVerifier>>
    /\ UNCHANGED <<authVars, notAuth>>

(* confirmationResult.confirm(otp) returns: the identity provider has signed
   in the account of the confirmed number and reports it to the auth context. *)
ConfirmAccepted ==
    /\ pending.kind = "confirm"
    /\ AuthStateChanged(UidOfPhone(pending.phone))
    /\ UNCHANGED signingOut
    /\ phoneOp' = PhoneOp("confirmReturn", TRUE)
    /\ phoneToast' = "loginSuccess"
    /\ isLoading' = FALSE
    /\ pending' = NoPending
    /\ RoleEffect(step)
    /\ RedirectEffect(phoneNav)
    /\ UNCHANGED <<phone, otp, confirmationResult, isDevMode, recaptchaVerifier>>

(* AuthContext.setUserRole after its upsert returned. *)
SetUserRoleState(role, error) ==
    IF ~error
    THEN /\ userRole' = role
         /\ needsRoleSelection' = FALSE
    ELSE UNCHANGED <<userRole, needsRoleSelection>>

(* handleRoleSelect after `await setUserRole(selectedRole)`: setUserRole
   returns normally whatever its upsert answered. *)
AfterSetUserRole(error) == "success"

RoleSelected(role, outcome) ==
    /\ IF outcome = "success"
       THEN /\ phoneToast' = "loginSuccess"
            /\ phoneNav' = RouteOf(role)
       ELSE /\ phoneToast' = "error"
            /\ UNCHANGED phoneNav
    /\ isLoading' = FALSE
    /\ pending' = NoPending

(* handleRoleSelect up to the upsert of setUserRole; `if (!user) return`
   ends setUserRole without a request. *)
HandleRoleSelect(role) ==
    /\ PhoneMounted /\ step = "role" /\ ~isLoading
    /\ phoneOp' = PhoneOp("handleRoleSelect", TRUE)
    /\ IF user = NoUser
       THEN RoleSelected(role, "success")
       ELSE /\ isLoading' = TRUE
            /\ pending' = [kind |-> "setUserRole", role |-> role, uid |-> user]
            /\ UNCHANGED <<phoneToast, phoneNav>>
    /\ UNCHANGED <<phone, otp, step, confirmationResult, isDevMode, recaptchaVerifier>>
    /\ UNCHANGED <<authVars, notAuth>>

(* The profile upsert of setUserRole returns {error}. *)
SetUserRoleReturn ==
    /\ pending.kind = "setUserRole"
    /\ \E error \in BOOLEAN :
         /\ phoneOp' = PhoneOp("setUserRoleReturn", ~error)
         /\ profiles' = IF error THEN profiles
                        ELSE [profiles EXCEPT ![pending.uid] = pending.role]
         /\ SetUserRoleState(pending.role, error)
         /\ RoleSelected(pending.role, AfterSetUserRole(error))
    /\ handlers' = Interleaved(handlers)
    /\ UNCHANGED <<user, loading, signingOut>>
    /\ UNCHANGED <<phone, otp, step, confirmationResult, isDevMode, recaptchaVerifier>>
    /\ UNCHANGED notAuth

(* The page opens either with the application (the auth context still
   loading, so the first render shows the spinner and the mount effect creates
   no verifier) or by navigation once the auth context has resolved to nobody
   signed in. *)
PhoneInit ==
    /\ user = NoUser
    /\ userRole = NoRole
    /\ needsRoleSelection = FALSE
    /\ loading \in BOOLEAN
    /\ \E r1 \in {NoProfile, "farmer"} :
         profiles = [u \in AuthUsers |-> IF u = AdminUid THEN NoProfile ELSE r1]
    /\ handlers = <<>>
    /\ signingOut = FALSE
    /\ phone = <<>>
    /\ otp = <<>>
    /\ step = "phone"
    /\ isLoading = FALSE
    /\ confirmationResult = NoConfirmation
    /\ isDevMode = FALSE
    /\ phoneToast = "none"
    /\ phoneNav = "/auth"
    /\ pending = NoPending
    /\ phoneOp = NoPhoneOp
    /\ recaptchaVerifier = ~loading
    /\ CheckoutIdle
    /\ ChatIdle
    /\ RestIdle

PhoneNext ==
    \/ \E u \in AuthUsers \cup {NoUser} :
         AuthStateChanged(u) /\ UNCHANGED signingOut /\ OnAuthContext
    \/ \E h \in 1..MaxEvents : UpsertReturn(h) /\ OnAuthContext
    \/ \E h \in 1..MaxEvents : ProfileReturn(h) /\ OnAuthContext
    \/ \E raw \in TypedPhones : SetPhone(raw)
    \/ \E raw \in TypedOtps : SetOtp(raw)
    \/ ChangePhone
    \/ SendOTP
    \/ SendOtpReturn
    \/ VerifyOTP
    \/ ConfirmRejected
    \/ ConfirmAccepted
    \/ \E role \in {"buyer", "farmer"} : HandleRoleSelect(role)
    \/ SetUserRoleReturn

SpecPhone == PhoneInit /\ [][PhoneNext]_vars

(* Properties of the phone login page *)

C11_Step ==
    /\ (step' = "otp" /\ step # "otp") =>
         \/ /\ phoneOp' = PhoneOp("sendOTP", TRUE)
            /\ phone = DEV_ADMIN_PHONE
            /\ Len(phone) >= 10
         \/ /\ phoneOp' = PhoneOp("sendOtpReturn", TRUE)
            /\ pending.kind = "sendOTP"
            /\ Len(pending.phone) >= 10
    /\ (step' = "role" /\ step # "role") =>
         (user' # NoUser /\ needsRoleSelection')
    /\ (phoneOp'.name = "sendOTP" /\ Len(phone) < 10) =>
         (step = "phone" /\ step' = "phone" /\ pending' = NoPending)
    /\ phoneOp' = PhoneOp("sendOtpReturn", FALSE) =>
         (step' = step /\ step' # "otp")
    /\ (phoneOp'.name = "verifyOTP" /\ Len(otp) # 6) =>
         (pending' = NoPending /\ UNCHANGED authVars)

(* C11: the page starts at step "phone"; the step becomes "otp" only by a
   sendOTP call with a phone of at least 10 digits whose code request
   succeeded or whose phone is the dev admin number; it becomes "role" only
   when a user is signed in and needsRoleSelection is true; a sendOTP call
   with a shorter phone sends no request and stays at "phone", a failed code
   request does not move the step; verifyOTP with a code that is not exactly
   6 digits attempts no confirmation. *)
C11_ThreeSteps == (step = "phone") /\ [][C11_Step]_vars

C11_Witness ==
    /\ step = "otp"
    /\ phoneOp = PhoneOp("sendOtpReturn", TRUE)
    /\ confirmationResult = [phone |-> FormatPhone(UserPhone)]

C12_Step ==
    phoneOp' = PhoneOp("setUserRoleReturn", FALSE) =>
      /\ phoneToast' = "error"
      /\ UNCHANGED <<userRole, needsRoleSelection>>
      /\ phoneNav' = phoneNav

(* C12: when the profile upsert of setUserRole returns an error, an error
   notification is shown, userRole and needsRoleSelection are unchanged, and
   handleRoleSelect neither reports a successful login nor navigates. *)
C12_UpsertErrorSurfaced == [][C12_Step]_vars

(***************************************************************************)
(* The auth context under sign-out and stale callbacks.                    *)
(***************************************************************************)

(* C21: in every reachable state of the auth context, a non-null userRole or
   a true needsRoleSelection implies a non-null user, also when signOut or an
   auth change to no user interleaves with the profile lookup of a sign-in
   that is still in flight. *)
C21_RoleImpliesUser ==
    (userRole # NoRole \/ needsRoleSelection) => user # NoUser

C22_Step ==
    \A h \in DOMAIN handlers :
      (handlers[h].pc = "select" /\ handlers'[h].pc = "done" /\ needsRoleSelection')
        => profiles[handlers[h].firebaseUser] = NoProfile

(* C22: needsRoleSelection becomes true only for a new user, a signed-in
   user with no profile that has a role stored; a user whose profile already
   has a role is never asked again, whatever the outcome of the profile
   lookup request. *)
C22_AskedOnlyWhenNew == [][C22_Step]_vars

(* C23: whenever loading is false and a user is signed in, userRole is
   non-null or needsRoleSelection is true. *)
C23_ResolvedWhenLoaded ==
    (~loading /\ user # NoUser) => (userRole # NoRole \/ needsRoleSelection)

----------------------------------------------------------------------------
(* Properties of the dev admin bypass and of the confirmation in use *)

(* The dev admin number is on the form and sendOTP runs. *)
DevSend == phone = DEV_ADMIN_PHONE /\ phoneOp' = PhoneOp("sendOTP", TRUE)

(* The dev admin number and the dev OTP are on the form in dev mode and
   verifyOTP runs. *)
DevVerify ==
    /\ isDevMode /\ phone = DEV_ADMIN_PHONE /\ otp = DEV_ADMIN_OTP
    /\ phoneOp' = PhoneOp("verifyOTP", TRUE)

C24_Step ==
    /\ DevSend => /\ pending' = NoPending
                  /\ isDevMode' /\ step' = "otp"
                  /\ UNCHANGED <<authVars, confirmationResult, phoneNav>>
    /\ DevVerify => /\ pending' = NoPending
                    /\ phoneToast' = "devModeOnly"
                    /\ UNCHANGED <<authVars, confirmationResult, phoneNav, step>>

(* C24: the dev admin bypass signs nobody in: entering the dev admin phone
   and then the dev OTP 567890 requests and confirms no code and leaves the
   auth state unchanged (user, role, profiles); the page only shows a
   notification. *)
C24_DevBypassSignsNobodyIn == [][C24_Step]_vars

C24_Witness ==
    /\ phoneOp = PhoneOp("verifyOTP", TRUE)
    /\ isDevMode /\ phone = DEV_ADMIN_PHONE /\ otp = DEV_ADMIN_OTP
    /\ phoneToast = "devModeOnly"
    /\ user = NoUser /\ userRole = NoRole

C26_Step ==
    (pending.kind # "confirm" /\ pending'.kind = "confirm")
      => pending'.phone = FormatPhone(phone)

(* C26: verifyOTP confirms a code only against the confirmation issued for
   the phone number currently entered: after "change phone" and a following
   sendOTP for another number (the dev admin number included), a confirmation
   issued for an earlier number is never used to sign in. *)
C26_ConfirmsCurrentPhone == [][C26_Step]_vars

(* No code is ever requested, and no confirmation ever held or confirmed,
   for the admin number: the page never signs the admin account in. *)
AdminNeverConfirmed ==
    /\ confirmationResult.phone # AdminPhoneChars
    /\ (pending.kind \in {"sendOTP", "confirm"}) => (pending.phone # AdminPhoneChars)
    /\ (phoneOp = PhoneOp("confirmReturn", TRUE)) => (user # AdminUid)

(* The admin number is on the form, the form can request a code, and sendOTP
   runs. *)
AdminSend ==
    /\ FormatPhone(phone) = AdminPhoneChars
    /\ recaptchaVerifier
    /\ phoneOp' = PhoneOp("sendOTP", TRUE)

C25_Step == AdminSend => (pending'.kind = "sendOTP" /\ pending'.phone = AdminPhoneChars)

(* C25: a user with the admin phone number can log in through the phone
   login page and is auto-assigned admin: from step "phone" with the admin
   number entered, sendOTP requests a code for the admin number, whose
   confirmation signs in a user with userRole "admin", redirected to
   /admin. *)
C25_AdminCanLogIn == [][C25_Step]_vars

----------------------------------------------------------------------------
(* PhoneAuth page, role-first variant: the role is chosen on the form before
   the code is requested, and verifyOTP writes the profile itself.  The page
   does not read the auth context. *)

RoleFirstMounted == phoneNav = "/auth"

RoleFirstFrame == UNCHANGED <<isDevMode, recaptchaVerifier>>
                    /\ UNCHANGED <<user, loading, userRole, needsRoleSelection, handlers, signingOut>>
                    /\ UNCHANGED notRoleFirst

SetRole2(r) ==
    /\ RoleFirstMounted /\ step = "phone"
    /\ selectedRole' = r
    /\ phoneOp' = NoPhoneOp
    /\ UNCHANGED <<phone, otp, step, isLoading, confirmationResult, phoneToast, phoneNav,
                   pending, profiles>>
    /\ RoleFirstFrame

SetPhone2(raw) ==
    /\ RoleFirstMounted /\ step = "phone"
    /\ phone' = DigitsSlice(raw, 10)
    /\ phoneOp' = NoPhoneOp
    /\ UNCHANGED <<otp, step, isLoading, confirmationResult, phoneToast, phoneNav,
                   pending, profiles, selectedRole>>
    /\ RoleFirstFrame

SetOtp2(raw) ==
    /\ RoleFirstMounted /\ step = "otp"
    /\ otp' = DigitsSlice(raw, 6)
    /\ phoneOp' = NoPhoneOp
    /\ UNCHANGED <<phone, step, isLoading, confirmationResult, phoneToast, phoneNav,
                   pending, profiles, selectedRole>>
    /\ RoleFirstFrame

(* The "change phone" button: setStep('phone'). *)
ChangePhone2 ==
    /\ RoleFirstMounted /\ step = "otp"
    /\ step' = "phone"
    /\ phoneOp' = NoPhoneOp
    /\ UNCHANGED <<phone, otp, isLoading, confirmationResult, phoneToast, phoneNav,
                   pending, profiles, selectedRole>>
    /\ RoleFirstFrame

(* sendOTP up to its await. *)
SendOTP2 ==
    /\ RoleFirstMounted /\ step = "phone" /\ ~isLoading
    /\ phoneOp' = PhoneOp("sendOTP", ValidPhone(phone))
    /\ IF ~ValidPhone(phone)
       THEN /\ phoneToast' = "invalidPhone"
            /\ UNCHANGED <<isLoading, pending>>
       ELSE IF ~recaptchaVerifier
       THEN /\ phoneToast' = "error"
            /\ UNCHANGED <<isLoading, pending>>
       ELSE /\ isLoading' = TRUE
            /\ pending' = [kind |-> "sendOTP", phone |-> FormatPhone(phone)]
            /\ UNCHANGED phoneToast
    /\ UNCHANGED <<phone, otp, step, confirmationResult, phoneNav, profiles, selectedRole>>
    /\ RoleFirstFrame

(* signInWithPhoneNumber returns or throws. *)
SendOtpReturn2 ==
    /\ pending.kind = "sendOTP"
    /\ \E ok \in BOOLEAN :
         /\ phoneOp' = PhoneOp("sendOtpReturn", ok)
         /\ IF ok
            THEN /\ confirmationResult' = [phone |-> pending.phone]
                 /\ step' = "otp"
                 /\ phoneToast' = "otpSent"
            ELSE /\ phoneToast' = "error"
                 /\ UNCHANGED <<confirmationResult, step>>
    /\ isLoading' = FALSE
    /\ pending' = NoPending
    /\ UNCHANGED <<phone, otp, phoneNav, profiles, selectedRole>>
    /\ RoleFirstFrame

(* verifyOTP up to its first await; the run keeps the role of the render it
   was started from. *)
VerifyOTP2 ==
    /\ RoleFirstMounted /\ step = "otp" /\ ~isLoading
    /\ phoneOp' = PhoneOp("verifyOTP", ValidOtp(otp))
    /\ IF ~ValidOtp(otp)
       THEN /\ phoneToast' = "invalidOtp"
            /\ UNCHANGED <<isLoading, pending>>
       ELSE IF confirmationResult = NoConfirmation
       THEN /\ phoneToast' = "error"
            /\ UNCHANGED <<isLoading, pending>>
       ELSE /\ isLoading' = TRUE
            /\ pending' = [kind |-> "confirm", phone |-> confirmationResult.phone,
                           otp |-> otp, role |-> selectedRole]
            /\ UNCHANGED phoneToast
    /\ UNCHANGED <<phone, otp, step, confirmationResult, phoneNav, profiles, selectedRole>>
    /\ RoleFirstFrame

(* confirmationResult.confirm(otp) throws. *)
ConfirmRejected2 ==
    /\ pending.kind = "confirm"
    /\ phoneOp' = PhoneOp("confirmReturn", FALSE)
    /\ phoneToast' = "error"
    /\ isLoading' = FALSE
    /\ pending' = NoPending
    /\ UNCHANGED <<phone, otp, step, confirmationResult, phoneNav, profiles, selectedRole>>
    /\ RoleFirstFrame

(* confirmationResult.confirm(otp) returns the signed-in user: the profile
   upsert with the chosen role is sent. *)
ConfirmAccepted2 ==
    /\ pending.kind = "confirm"
    /\ phoneOp' = PhoneOp("confirmReturn", TRUE)
    /\ pending' = [kind |-> "upsert", id |-> UidOfPhone(pending.phone), role |-> pending.role]
    /\ UNCHANGED <<phone, otp, step, isLoading, confirmationResult, phoneToast, phoneNav,
                   profiles, selectedRole>>
    /\ RoleFirstFrame

(* What the upsert leaves in the table: the row with the role written, or
   the table as it was when the request fails. *)
Upserted(table, id, r, error) == IF error THEN table ELSE [table EXCEPT ![id] = r]

(* The upsert returns; its error is only logged. *)
ProfileUpsertReturn2 ==
    /\ pending.kind = "upsert"
    /\ \E error \in BOOLEAN :
         /\ profiles' = Upserted(profiles, pending.id, pending.role, error)
         /\ phoneOp' = PhoneOp("upsertReturn", ~error)
    /\ phoneToast' = "loginSuccess"
    /\ phoneNav' = "/marketplace"
    /\ isLoading' = FALSE
    /\ pending' = NoPending
    /\ UNCHANGED <<phone, otp, step, confirmationResult, selectedRole>>
    /\ RoleFirstFrame

(* The page as mounted: its mount effect has created the verifier.  The
   table holds any role, or none, for each account. *)
RoleFirstInit ==
    /\ user = NoUser
    /\ loading = TRUE
    /\ userRole = NoRole
    /\ needsRoleSelection = FALSE
    /\ \E r1 \in {NoProfile, "farmer", "buyer"}, ra \in {NoProfile, "admin"} :
         profiles = [u \in AuthUsers |-> IF u = AdminUid THEN ra ELSE r1]
    /\ handlers = <<>>
    /\ signingOut = FALSE
    /\ phone = <<>>
    /\ otp = <<>>
    /\ step = "phone"
    /\ isLoading = FALSE
    /\ confirmationResult = NoConfirmation
    /\ isDevMode = FALSE
    /\ phoneToast = "none"
    /\ phoneNav = "/auth"
    /\ pending = NoPending
    /\ phoneOp = NoPhoneOp
    /\ recaptchaVerifier = TRUE
    /\ selectedRole = "buyer"
    /\ CheckoutIdle
    /\ ChatIdle
    /\ EdgeIdle
    /\ EmailIdle

RoleFirstNext ==
    \/ \E r \in {"farmer", "buyer"} : SetRole2(r)
    \/ \E raw \in TypedPhones : SetPhone2(raw)
    \/ \E raw \in TypedOtps : SetOtp2(raw)
    \/ ChangePhone2
    \/ SendOTP2
    \/ SendOtpReturn2
    \/ VerifyOTP2
    \/ ConfirmRejected2
    \/ ConfirmAccepted2
    \/ ProfileUpsertReturn2

SpecRoleFirst == RoleFirstInit /\ [][RoleFirstNext]_vars

C27_Step ==
    (pending.kind = "upsert" /\ pending'.kind # "upsert")
      => /\ profiles'[pending.id] = pending.role
         /\ phoneNav' = "/marketplace"

(* C27: in the role-first variant every successful OTP confirmation creates
   or updates the user's profile with the role selected on the form
   (default "buyer"), so after login the stored role equals the selected
   role whatever role was stored before; the page then navigates to
   /marketplace, also when the profile write returned an error. *)
C27_StoredRoleIsSelected == [][C27_Step]_vars
====
